---- MODULE Spec2Model ----
(***************************************************************************)
(* A model of the financial-query assistant: the cache store               *)
(* (cache/cache_manager.py), the ticker resolver and the comparison        *)
(* formatter (agents/simple_financial_agent.py), the query analyzer and    *)
(* the orchestrator (agents/orchestrator.py).                              *)
(*                                                                         *)
(* Python values are records tagged by their type in the field py.  A      *)
(* Python str is a sequence of one-character strings, so that lower(),     *)
(* upper(), `in` and startswith() are computed character by character.     *)
(***************************************************************************)
EXTENDS Integers, Sequences, FiniteSets, TLC

VARIABLES
    redis_client,       \* CacheManager.redis_client: "connected" or "None"
    _in_memory_cache,   \* CacheManager._in_memory_cache: key -> [value, expires]
    redis_store,        \* the key space of the Redis server: key -> [value, expires]
    now,                \* datetime.now(), in seconds
    input,              \* the arguments of the pure function under check
    last,               \* the most recent call: its arguments and what it returned
    memory,             \* MemoryManager.memory: the interactions, oldest first
    calls               \* the calls in flight: each one's position and locals

vars == <<redis_client, _in_memory_cache, redis_store, now, input, last, memory, calls>>

cacheVars == <<redis_client, _in_memory_cache, redis_store, now>>

(***************************************************************************)
(* Python values                                                           *)
(***************************************************************************)
None == [py |-> "None"]

PyStr(s) == [py |-> "str", s |-> s]

PyInt(n) == [py |-> "int", n |-> n]

PyList(items) == [py |-> "list", items |-> items]

\* a dict is the sequence of its <<key, value>> items in insertion order
PyDict(items) == [py |-> "dict", items |-> items]

\* bool(v); a dict with literal keys is a function from the key names
Truthy(v) ==
    IF "py" \notin DOMAIN v THEN DOMAIN v # {} ELSE
    CASE v.py = "None" -> FALSE
      [] v.py = "str"  -> v.s # <<>>
      [] v.py = "int"  -> v.n # 0
      [] v.py = "list" -> v.items # <<>>
      [] v.py = "dict" -> v.items # <<>>
      [] OTHER         -> TRUE

\* the characters of a str joined into one atom
RECURSIVE Str(_)
Str(s) == IF s = <<>> THEN "" ELSE Head(s) \o Str(Tail(s))

Range(f) == {f[i] : i \in DOMAIN f}

\* the map m without the keys in ks
Without(m, ks) == [k \in (DOMAIN m) \ ks |-> m[k]]

\* the map m with key k bound to v
With(m, k, v) == [x \in (DOMAIN m) \cup {k} |-> IF x = k THEN v ELSE m[x]]

EmptyMap == [k \in {} |-> None]

(***************************************************************************)
(* Key derivation: CacheManager._generate_key                              *)
(***************************************************************************)
\* the order of sorted() on the field names the model uses
KeyAlphabet == <<"a", "b", "c">>

RECURSIVE SortedFrom(_, _)
\* the items whose key is among the alphabet from position i on, in that order
SortedFrom(items, i) ==
    IF i > Len(KeyAlphabet) THEN <<>>
    ELSE SelectSeq(items, LAMBDA it : it[1] = <<KeyAlphabet[i]>>) \o SortedFrom(items, i + 1)

\* json.dumps without sort_keys: the items stay in insertion order
sort_keys_off(items) == items

\* sorted(dct.items()) as json.dumps(sort_keys=True) applies it
sort_keys(items) == SortedFrom(items, 1)

RECURSIVE json_dumps(_)
RECURSIVE json_items(_, _)
RECURSIVE json_elems(_, _)
\* json.dumps(data, sort_keys=True, default=str), as a str
json_dumps(v) ==
    CASE v.py = "str"  -> <<"\"">> \o v.s \o <<"\"">>
      [] v.py = "int"  -> <<ToString(v.n)>>
      [] v.py = "None" -> <<"n", "u", "l", "l">>
      [] v.py = "list" -> <<"[">> \o json_elems(v.items, 1) \o <<"]">>
      [] v.py = "dict" -> <<"{">> \o json_items(sort_keys(v.items), 1) \o <<"}">>

json_elems(items, i) ==
    IF i > Len(items) THEN <<>>
    ELSE (IF i > 1 THEN <<",", " ">> ELSE <<>>)
         \o json_dumps(items[i]) \o json_elems(items, i + 1)

json_items(items, i) ==
    IF i > Len(items) THEN <<>>
    ELSE (IF i > 1 THEN <<",", " ">> ELSE <<>>)
         \o <<"\"">> \o items[i][1] \o <<"\"", ":", " ">>
         \o json_dumps(items[i][2]) \o json_items(items, i + 1)

\* hashlib.md5(s.encode()).hexdigest(): an opaque digest, one per input text
md5_hexdigest(s) == <<"md5(" \o Str(s) \o ")">>

\* CacheManager._generate_key(prefix, data)
_generate_key(prefix, data) ==
    LET data_str == IF data.py = "str" THEN data.s ELSE json_dumps(data)
    IN  prefix \o <<":">> \o md5_hexdigest(data_str)

(***************************************************************************)
(* The inputs of the key derivation                                        *)
(***************************************************************************)
\* the most fields a dict of the model has
MaxFields == 2

Namespaces == {<<"o", "r", "c", "h", "e", "s", "t", "r", "a", "t", "o", "r">>,
               <<"s", "t", "o", "c", "k", "_", "d", "a", "t", "a">>}

\* the sequences of n distinct field names over the alphabet keys
KeySeqs(keys, n) ==
    {s \in [1..n -> Range(keys)] : \A i, j \in 1..n : i # j => s[i] # s[j]}

\* the dicts of at most MaxFields fields named in keys, with values in V,
\* in every insertion order
Dicts(keys, V) ==
    UNION {{PyDict([i \in 1..n |-> << <<ks[i]>>, vs[i] >>]) :
                ks \in KeySeqs(keys, n), vs \in [1..n -> V]} : n \in 0..MaxFields}

Scalars == {PyStr(<<"x">>), PyInt(1)}

InnerDicts == Dicts(SubSeq(KeyAlphabet, 1, 2), {PyStr(<<"x">>)})

Level1 == Scalars \cup InnerDicts \cup {PyList(<<d>>) : d \in InnerDicts}

Payloads == Dicts(KeyAlphabet, Level1) \cup Level1

RECURSIVE Reorderings(_)
\* the payloads structurally equal to v: the same fields and values, the
\* fields of every dict at every depth taken in any insertion order
Reorderings(v) ==
    CASE v.py = "dict" ->
           LET n == Len(v.items)
               alts == [i \in 1..n |-> Reorderings(v.items[i][2])]
               all == UNION {alts[i] : i \in 1..n}
           IN  {PyDict([i \in 1..n |-> <<v.items[p[i]][1], c[p[i]]>>]) :
                    p \in Permutations(1..n),
                    c \in {f \in [1..n -> all] : \A i \in 1..n : f[i] \in alts[i]}}
      [] v.py = "list" ->
           LET n == Len(v.items)
               alts == [i \in 1..n |-> Reorderings(v.items[i])]
               all == UNION {alts[i] : i \in 1..n}
           IN  {PyList(c) : c \in {f \in [1..n -> all] : \A i \in 1..n : f[i] \in alts[i]}}
      [] OTHER -> {v}

\* the store as it is before construction has run; no conversation is
\* kept and no call is in flight
NoCache ==
    /\ redis_client = "None"
    /\ _in_memory_cache = EmptyMap
    /\ redis_store = EmptyMap
    /\ now = 0
    /\ memory = <<>>
    /\ calls = <<>>

InitKey ==
    /\ NoCache
    /\ input \in [fn : {"_generate_key"}, prefix : Namespaces, data : Payloads]
    /\ last = [op |-> "init"]

\* one call of CacheManager._generate_key
GenerateKeyCall ==
    /\ input.fn = "_generate_key"
    /\ last.op = "init"
    /\ last' = [op |-> "_generate_key", prefix |-> input.prefix, data |-> input.data,
                ret |-> _generate_key(input.prefix, input.data)]
    /\ UNCHANGED <<cacheVars, input, memory, calls>>

NextKey == GenerateKeyCall

SpecKey == InitKey /\ [][NextKey]_vars

\* C1: structurally equal payloads whose fields were inserted in another
\* order, at any depth, get the key of the payload given, and that key is
\* the namespace, a colon and one digest
KeyOrderInsensitive ==
    last.op = "_generate_key" =>
        /\ \A q \in Reorderings(last.data) : _generate_key(last.prefix, q) = last.ret
        /\ Len(last.ret) = Len(last.prefix) + 2
        /\ SubSeq(last.ret, 1, Len(last.prefix) + 1) = last.prefix \o <<":">>

\* a key was derived for a dict of two fields one of which is a dict of two
\* fields itself, so that both levels have another insertion order
KeyOrderWitness ==
    /\ last.op = "_generate_key"
    /\ last.data.py = "dict"
    /\ Len(last.data.items) = 2
    /\ \E i \in 1..2 : /\ last.data.items[i][2].py = "dict"
                       /\ Len(last.data.items[i][2].items) = 2
    /\ Cardinality(Reorderings(last.data)) = 4

(***************************************************************************)
(* The cache store: CacheManager over Redis or the in-memory map           *)
(***************************************************************************)
\* settings.CACHE_TTL
CACHE_TTL == 3600

\* the five minutes quotes, company news and web results are cached for
QUOTE_TTL == 300

\* the state of one CacheManager
Store(client, mem, redis) == [redis_client |-> client, mem |-> mem, redis |-> redis]

\* pickle.dumps(value): bytes that hold the value
pickle_dumps(v) == [py |-> "bytes", pickled |-> v]

\* the bytes handed back as they are, not unpickled
pickle_loads_raw(b) == b

\* pickle.loads(data)
pickle_loads(b) == b.pickled

\* x or y
Or(x, y) == IF Truthy(x) THEN x ELSE y

\* Redis GET: the value of a key that exists and has not expired, else nil
redis_get(redis, key, t) ==
    IF key \in DOMAIN redis /\ t < redis[key].expires THEN redis[key].value ELSE None

\* Redis SETEX: the key holds the value for ttl seconds
redis_setex(redis, key, ttl, value, t) ==
    With(redis, key, [value |-> value, expires |-> t + ttl])

\* s.startswith(prefix)
startswith(s, prefix) ==
    Len(prefix) <= Len(s) /\ SubSeq(s, 1, Len(prefix)) = prefix

\* the keys SCAN with match=f"{prefix}:*" yields
scan_match(redis, prefix) == {k \in DOMAIN redis : startswith(k, prefix \o <<":">>)}

\* what a call leaves behind: the value returned, the store, whether Redis
\* was called and whether an exception leaves the call
Outcome(ret, cs, contacted, exc) ==
    [ret |-> ret, cs |-> cs, contacted |-> contacted, exc |-> exc]

\* no except clause: the exception leaves the call
except_nothing(r) == r

\* the except clause of get, set and clear: log the error and return None
except_Exception(r) == IF r.exc THEN [r EXCEPT !.ret = None, !.exc = FALSE] ELSE r

\* get with the expiry test now <= expires
get_try_le(cs, key, t, fault) ==
    IF cs.redis_client = "connected"
    THEN IF fault THEN Outcome(None, cs, TRUE, TRUE)
         ELSE LET cached == redis_get(cs.redis, key, t)
              IN  Outcome(IF Truthy(cached) THEN pickle_loads(cached) ELSE None,
                          cs, TRUE, FALSE)
    ELSE IF key \in DOMAIN cs.mem
         THEN IF t <= cs.mem[key].expires
              THEN Outcome(cs.mem[key].value, cs, FALSE, FALSE)
              ELSE Outcome(None, [cs EXCEPT !.mem = Without(cs.mem, {key})], FALSE, FALSE)
         ELSE Outcome(None, cs, FALSE, FALSE)

\* the try block of CacheManager.get; fault: the Redis call raises
get_try(cs, key, t, fault) ==
    IF cs.redis_client = "connected"
    THEN IF fault THEN Outcome(None, cs, TRUE, TRUE)
         ELSE LET cached == redis_get(cs.redis, key, t)
              IN  Outcome(IF Truthy(cached) THEN pickle_loads(cached) ELSE None,
                          cs, TRUE, FALSE)
    ELSE IF key \in DOMAIN cs.mem
         THEN IF t < cs.mem[key].expires
              THEN Outcome(cs.mem[key].value, cs, FALSE, FALSE)
              ELSE Outcome(None, [cs EXCEPT !.mem = Without(cs.mem, {key})], FALSE, FALSE)
         ELSE Outcome(None, cs, FALSE, FALSE)

\* CacheManager.get(key)
get(cs, key, t, fault) == except_Exception(get_try(cs, key, t, fault))

\* a set that takes a ttl of 0 for zero seconds
set_try_zero_seconds(cs, key, value, ttl, t, fault) ==
    LET seconds == IF ttl = None THEN CACHE_TTL ELSE ttl.n
    IN  IF cs.redis_client = "connected"
        THEN IF fault \/ seconds <= 0 THEN Outcome(None, cs, TRUE, TRUE)
             ELSE Outcome(None,
                          [cs EXCEPT !.redis = redis_setex(cs.redis, key, seconds,
                                                           pickle_dumps(value), t)],
                          TRUE, FALSE)
        ELSE Outcome(None,
                     [cs EXCEPT !.mem = With(cs.mem, key,
                                             [value |-> value, expires |-> t + seconds])],
                     FALSE, FALSE)

\* the try block of CacheManager.set
set_try(cs, key, value, ttl, t, fault) ==
    LET seconds == Or(ttl, PyInt(CACHE_TTL)).n
    IN  IF cs.redis_client = "connected"
        THEN IF fault \/ seconds <= 0 THEN Outcome(None, cs, TRUE, TRUE)
             ELSE Outcome(None,
                          [cs EXCEPT !.redis = redis_setex(cs.redis, key, seconds,
                                                           pickle_dumps(value), t)],
                          TRUE, FALSE)
        ELSE Outcome(None,
                     [cs EXCEPT !.mem = With(cs.mem, key,
                                             [value |-> value, expires |-> t + seconds])],
                     FALSE, FALSE)

\* CacheManager.set(key, value, ttl)
set(cs, key, value, ttl, t, fault) == except_Exception(set_try(cs, key, value, ttl, t, fault))

\* clear whose local filter is k.startswith(prefix), without the colon
clear_try_no_colon(cs, prefix, fault, done) ==
    IF cs.redis_client = "connected" \/ ~Truthy(prefix)
    THEN Outcome(None, [cs EXCEPT !.mem = EmptyMap, !.redis = EmptyMap],
                 cs.redis_client = "connected", FALSE)
    ELSE Outcome(None,
                 [cs EXCEPT !.mem = Without(cs.mem,
                     {k \in DOMAIN cs.mem : startswith(k, prefix.s)})],
                 FALSE, FALSE)

\* the try block of CacheManager.clear; done: the keys the scan loop had
\* deleted when a Redis call raised
clear_try(cs, prefix, fault, done) ==
    IF cs.redis_client = "connected" /\ Truthy(prefix)
    THEN IF fault
         THEN Outcome(None, [cs EXCEPT !.redis = Without(cs.redis, done)], TRUE, TRUE)
         ELSE Outcome(None,
                      [cs EXCEPT !.redis = Without(cs.redis, scan_match(cs.redis, prefix.s))],
                      TRUE, FALSE)
    ELSE IF cs.redis_client = "connected"
         THEN IF fault THEN Outcome(None, cs, TRUE, TRUE)
              ELSE Outcome(None, [cs EXCEPT !.redis = EmptyMap], TRUE, FALSE)
         ELSE IF Truthy(prefix)
              THEN Outcome(None,
                           [cs EXCEPT !.mem = Without(cs.mem,
                               {k \in DOMAIN cs.mem : startswith(k, prefix.s \o <<":">>)})],
                           FALSE, FALSE)
              ELSE Outcome(None, [cs EXCEPT !.mem = EmptyMap], FALSE, FALSE)

\* CacheManager.clear(prefix)
clear(cs, prefix, fault, done) == except_Exception(clear_try(cs, prefix, fault, done))

\* _setup_redis whose except clause leaves the client from_url made in place
_setup_redis_keeps_client(reachable) == "connected"

\* CacheManager._setup_redis(redis_url); reachable: the server answers the ping
_setup_redis(reachable) == IF reachable THEN "connected" ELSE "None"

(***************************************************************************)
(* The cache store as a state machine                                      *)
(***************************************************************************)
CacheKeys == {<<"a", ":", "1">>, <<"a", "b", ":", "1">>}

CacheValues == {PyStr(<<"v">>), PyStr(<<>>)}

\* ttl omitted, 0, and the five minutes the data tools use
CacheTtls == {None, PyInt(0), PyInt(QUOTE_TTL)}

\* clear(), clear("") and clear("a")
ClearPrefixes == {None, PyStr(<<>>), PyStr(<<"a">>)}

\* the store the variables hold
CS == Store(redis_client, _in_memory_cache, redis_store)

\* a Redis call can raise only where there is a client to call
Faults == IF redis_client = "connected" THEN BOOLEAN ELSE {FALSE}

constructed == last.op # "init"

\* the variables take the store a call leaves
Becomes(cs) ==
    /\ redis_client' = cs.redis_client
    /\ _in_memory_cache' = cs.mem
    /\ redis_store' = cs.redis

InitCache ==
    /\ NoCache
    /\ input \in [fn : {"CacheManager"}, reachable : BOOLEAN]
    /\ last = [op |-> "init"]

\* CacheManager.__init__: the client is None, the map empty, then _setup_redis
Construct ==
    /\ input.fn \in {"CacheManager", "Orchestrator", "threads", "tools"}
    /\ ~constructed
    /\ redis_client' = _setup_redis(input.reachable)
    /\ _in_memory_cache' = EmptyMap
    /\ last' = [op |-> "__init__", contacted |-> TRUE, raised |-> FALSE, fault |-> FALSE]
    /\ UNCHANGED <<redis_store, now, input, memory, calls>>

Get(key) ==
    /\ input.fn = "CacheManager"
    /\ constructed
    /\ \E fault \in Faults :
          LET r == get(CS, key, now, fault)
          IN  /\ Becomes(r.cs)
              /\ last' = [op |-> "get", key |-> key, ret |-> r.ret,
                          contacted |-> r.contacted, raised |-> r.exc, fault |-> fault,
                          removed |-> (DOMAIN r.cs.mem # DOMAIN _in_memory_cache),
                          prev |-> IF last.op = "set"
                                   THEN [op |-> "set", key |-> last.key,
                                         value |-> last.value, fault |-> last.fault]
                                   ELSE [op |-> last.op]]
    /\ UNCHANGED <<now, input, memory, calls>>

Set(key, value, ttl) ==
    /\ input.fn = "CacheManager"
    /\ constructed
    /\ \E fault \in Faults :
          LET r == set(CS, key, value, ttl, now, fault)
          IN  /\ Becomes(r.cs)
              /\ last' = [op |-> "set", key |-> key, value |-> value, ttl |-> ttl,
                          ret |-> r.ret, contacted |-> r.contacted, raised |-> r.exc,
                          fault |-> fault]
    /\ UNCHANGED <<now, input, memory, calls>>

Clear(prefix) ==
    /\ input.fn = "CacheManager"
    /\ constructed
    /\ \E fault \in Faults :
       \E done \in (IF fault /\ Truthy(prefix)
                    THEN SUBSET scan_match(redis_store, prefix.s) ELSE {{}}) :
          LET r == clear(CS, prefix, fault, done)
          IN  /\ Becomes(r.cs)
              /\ last' = [op |-> "clear", prefix |-> prefix, ret |-> r.ret,
                          contacted |-> r.contacted, raised |-> r.exc, fault |-> fault,
                          removed |-> DOMAIN _in_memory_cache \ DOMAIN r.cs.mem]
    /\ UNCHANGED <<now, input, memory, calls>>

\* the keys of the server that have not expired at time t
Unexpired(redis, t) == [k \in {x \in DOMAIN redis : t < redis[x].expires} |-> redis[k]]

\* the instants the clock is looked at: around the expiry of a five-minute
\* entry and of a default-TTL entry written at 0 or at 300
Instants == {0, QUOTE_TTL, 2 * QUOTE_TTL, CACHE_TTL, CACHE_TTL + QUOTE_TTL}

\* time passes up to a later instant; the Redis server drops the keys that
\* have expired by then
Tick ==
    /\ input.fn = "CacheManager"
    /\ constructed
    /\ \E t \in Instants :
          /\ t > now
          /\ now' = t
          /\ redis_store' = Unexpired(redis_store, t)
    /\ last' = [op |-> "tick"]
    /\ UNCHANGED <<redis_client, _in_memory_cache, input, memory, calls>>

NextCache ==
    \/ Construct
    \/ \E key \in CacheKeys : Get(key)
    \/ \E key \in CacheKeys, value \in CacheValues, ttl \in CacheTtls : Set(key, value, ttl)
    \/ \E prefix \in ClearPrefixes : Clear(prefix)
    \/ Tick

SpecCache == InitCache /\ [][NextCache]_vars

\* the original reading of C2: a get right after set(k, v, ttl) returns v
RoundTrip ==
    (last.op = "get" /\ last.prev.op = "set" /\ last.prev.key = last.key)
        => last.ret = last.prev.value

\* C2: a get right after set(k, v, ttl), with no tick and no other call in
\* between, returns v, unless the Redis call of the set or of the get raised
RoundTripUnlessFault ==
    (/\ last.op = "get" /\ last.prev.op = "set" /\ last.prev.key = last.key
     /\ ~last.prev.fault /\ ~last.fault)
        => last.ret = last.prev.value

\* a get right after a set of the same key returned the value, in each mode
RoundTripWitness ==
    /\ last.op = "get" /\ last.prev.op = "set" /\ last.prev.key = last.key
    /\ redis_client = "connected"
    /\ last.ret = PyStr(<<>>)

\* what get does on the local map: absent and the entry removed from the
\* expiry on, the value and the map unchanged before
LocalGetStep ==
    (last'.op = "get" /\ last'.key \in DOMAIN _in_memory_cache) =>
        IF now >= _in_memory_cache[last'.key].expires
        THEN /\ last'.ret = None
             /\ _in_memory_cache' = Without(_in_memory_cache, {last'.key})
        ELSE /\ last'.ret = _in_memory_cache[last'.key].value
             /\ _in_memory_cache' = _in_memory_cache

\* the original reading of C3: the entry of set(k, v, ttl) expires ttl
\* seconds after the set
ExpiryAfterTtl ==
    [][redis_client = "None" =>
          /\ (last'.op = "set" /\ last'.ttl.py = "int") =>
                 _in_memory_cache'[last'.key] =
                     [value |-> last'.value, expires |-> now + last'.ttl.n]
          /\ LocalGetStep]_vars

\* C3: on the local backend set(k, v, ttl) stores v with expires_at = set
\* time + ttl, where a ttl of 0 or omitted stands for the default TTL; a
\* get at now >= expires_at returns absent and removes the entry of k, an
\* earlier get returns v and leaves the map unchanged
ExpiryLocal ==
    [][redis_client = "None" =>
          /\ last'.op = "set" =>
                 _in_memory_cache' = With(_in_memory_cache, last'.key,
                     [value |-> last'.value,
                      expires |-> now + (IF Truthy(last'.ttl) THEN last'.ttl.n
                                         ELSE CACHE_TTL)])
          /\ LocalGetStep]_vars

\* a get on the local map found the entry expired and removed it
ExpiryWitness ==
    /\ redis_client = "None"
    /\ last.op = "get"
    /\ last.removed
    /\ last.ret = None

\* C4: when the connection failed at construction, construction completes
\* and the store is local ever after: no call reaches Redis, no exception
\* leaves a call, set writes the local map and get reads it
PermanentFallback ==
    (constructed /\ ~input.reachable) =>
        /\ redis_client = "None"
        /\ redis_store = EmptyMap
        /\ last.op \in {"__init__", "get", "set", "clear"} => ~last.raised
        /\ last.op \in {"get", "set", "clear"} => ~last.contacted
        /\ last.op = "set" =>
               /\ last.key \in DOMAIN _in_memory_cache
               /\ _in_memory_cache[last.key].value = last.value
        /\ (last.op = "get" /\ last.ret # None) =>
               /\ last.key \in DOMAIN _in_memory_cache
               /\ _in_memory_cache[last.key].value = last.ret

\* after a failed connection a get returned a value from the local map
FallbackWitness ==
    /\ constructed /\ ~input.reachable
    /\ last.op = "get"
    /\ last.ret = PyStr(<<"v">>)

\* a call of get, set or clear whose Redis call raises
FailingCall ==
    /\ redis_client = "connected"
    /\ last'.op \in {"get", "set", "clear"}
    /\ last'.fault

\* the original reading of C5: a get, set or clear whose Redis call raises
\* returns absent, passes no exception on, leaves the store in durable mode
\* and changes neither the local map nor the keys of the server
FailureNoEffect ==
    [][FailingCall =>
          /\ last'.ret = None
          /\ ~last'.raised
          /\ redis_client' = "connected"
          /\ _in_memory_cache' = _in_memory_cache
          /\ redis_store' = redis_store]_vars

\* C5: a get, set or clear whose Redis call raises returns absent, passes
\* no exception on and leaves the store in durable mode and the local map
\* unchanged; get, set and clear() change no key of the server, while
\* clear(prefix) may have deleted some of the keys under the prefix
FailureContained ==
    [][FailingCall =>
          /\ last'.ret = None
          /\ ~last'.raised
          /\ redis_client' = "connected"
          /\ _in_memory_cache' = _in_memory_cache
          /\ IF last'.op = "clear" /\ Truthy(last'.prefix)
             THEN /\ DOMAIN redis_store' \subseteq DOMAIN redis_store
                  /\ \A k \in DOMAIN redis_store' : redis_store'[k] = redis_store[k]
                  /\ \A k \in DOMAIN redis_store \ DOMAIN redis_store' :
                         startswith(k, last'.prefix.s \o <<":">>)
             ELSE redis_store' = redis_store]_vars

\* a get whose Redis call raised returned absent although the server holds
\* the key
FailureWitness ==
    /\ redis_client = "connected"
    /\ last.op = "get"
    /\ last.fault
    /\ last.ret = None
    /\ last.key \in DOMAIN redis_store

(***************************************************************************)
(* Text: str.lower, str.upper, the `in` of two strs, the ticker regex      *)
(***************************************************************************)
UpperLetters == <<"A", "B", "C", "D", "E", "F", "G", "H", "I", "J", "K", "L", "M", "N", "O", "P", "Q", "R", "S", "T", "U", "V", "W", "X", "Y", "Z", "É", "È">>

LowerLetters == <<"a", "b", "c", "d", "e", "f", "g", "h", "i", "j", "k", "l", "m", "n", "o", "p", "q", "r", "s", "t", "u", "v", "w", "x", "y", "z", "é", "è">>

Digits == {"0", "1", "2", "3", "4", "5", "6", "7", "8", "9"}

\* the position of the letter c in the sequence letters, 0 when it is not in it
IndexIn(c, letters) ==
    IF \E i \in 1..Len(letters) : letters[i] = c
    THEN CHOOSE i \in 1..Len(letters) : letters[i] = c
    ELSE 0

\* str.lower()
lower(s) ==
    [i \in 1..Len(s) |->
        IF IndexIn(s[i], UpperLetters) > 0 THEN LowerLetters[IndexIn(s[i], UpperLetters)]
        ELSE s[i]]

\* str.upper()
upper(s) ==
    [i \in 1..Len(s) |->
        IF IndexIn(s[i], LowerLetters) > 0 THEN UpperLetters[IndexIn(s[i], LowerLetters)]
        ELSE s[i]]

RECURSIVE find(_, _, _)
\* s.find(sub, i - 1) >= 0: the leftmost scan for sub in s from position i
find(sub, s, i) ==
    IF i + Len(sub) - 1 > Len(s) THEN FALSE
    ELSE IF SubSeq(s, i, i + Len(sub) - 1) = sub THEN TRUE
    ELSE find(sub, s, i + 1)

\* sub in s
str_in(sub, s) == find(sub, s, 1)

\* any(k in text for k in keywords)
any_in(keywords, text) == \E i \in 1..Len(keywords) : str_in(keywords[i], text)

\* \w of the regex
IsWord(c) ==
    \/ IndexIn(c, UpperLetters) > 0
    \/ IndexIn(c, LowerLetters) > 0
    \/ c \in Digits
    \/ c = "_"

\* [A-Z] of the regex
IsAZ(c) == IndexIn(c, UpperLetters) \in 1..26

\* \b of the regex between positions i - 1 and i of s
WordBoundary(s, i) ==
    (i > 1 /\ IsWord(s[i - 1])) # (i <= Len(s) /\ IsWord(s[i]))

\* the spans <<i, j>> of s that \b([A-Z]{2,5})\b matches
TickerSpans(s) ==
    {sp \in (1..Len(s)) \X (1..Len(s)) :
        /\ sp[2] - sp[1] + 1 \in 2..5
        /\ \A k \in sp[1]..sp[2] : IsAZ(s[k])
        /\ WordBoundary(s, sp[1])
        /\ WordBoundary(s, sp[2] + 1)}

\* re.search(r'\b([A-Z]{2,5})\b', s): group 1 of the leftmost match, or None
re_search_ticker(s) ==
    IF TickerSpans(s) = {} THEN None
    ELSE LET sp == CHOOSE x \in TickerSpans(s) :
                       \A y \in TickerSpans(s) :
                           x[1] < y[1] \/ (x[1] = y[1] /\ x[2] >= y[2])
         IN  PyStr(SubSeq(s, sp[1], sp[2]))

(***************************************************************************)
(* The query analyzer: MultiAgentOrchestrator._analyze_query               *)
(***************************************************************************)
financial_keywords == <<
    <<"s", "t", "o", "c", "k">>,
    <<"p", "r", "i", "c", "e">>,
    <<"s", "h", "a", "r", "e">>,
    <<"m", "a", "r", "k", "e", "t">>,
    <<"t", "i", "c", "k", "e", "r">>,
    <<"s", "y", "m", "b", "o", "l">>,
    <<"e", "a", "r", "n", "i", "n", "g", "s">>,
    <<"r", "e", "v", "e", "n", "u", "e">>,
    <<"p", "r", "o", "f", "i", "t">>,
    <<"d", "i", "v", "i", "d", "e", "n", "d">>,
    <<"p", "e", " ", "r", "a", "t", "i", "o">>,
    <<"a", "n", "a", "l", "y", "s", "t">>,
    <<"r", "e", "c", "o", "m", "m", "e", "n", "d", "a", "t", "i", "o", "n">>,
    <<"t", "a", "r", "g", "e", "t">>,
    <<"f", "u", "n", "d", "a", "m", "e", "n", "t", "a", "l">>,
    <<"a", "c", "t", "i", "o", "n">>,
    <<"b", "o", "u", "r", "s", "e">>,
    <<"c", "o", "u", "r", "s">>,
    <<"r", "é", "s", "u", "l", "t", "a", "t", "s">>,
    <<"a", "n", "a", "l", "y", "s", "e">>
>>

company_keywords == <<
    <<"n", "v", "i", "d", "i", "a">>,
    <<"n", "v", "d", "a">>,
    <<"t", "e", "s", "l", "a">>,
    <<"t", "s", "l", "a">>,
    <<"a", "p", "p", "l", "e">>,
    <<"a", "a", "p", "l">>,
    <<"m", "i", "c", "r", "o", "s", "o", "f", "t">>,
    <<"m", "s", "f", "t">>,
    <<"a", "m", "a", "z", "o", "n">>,
    <<"a", "m", "z", "n">>,
    <<"g", "o", "o", "g", "l", "e">>,
    <<"g", "o", "o", "g", "l">>,
    <<"m", "e", "t", "a">>,
    <<"f", "a", "c", "e", "b", "o", "o", "k">>,
    <<"n", "e", "t", "f", "l", "i", "x">>,
    <<"n", "f", "l", "x">>,
    <<"a", "m", "d">>,
    <<"i", "n", "t", "e", "l">>,
    <<"i", "n", "t", "c">>
>>

news_keywords == <<
    <<"n", "e", "w", "s">>,
    <<"l", "a", "t", "e", "s", "t">>,
    <<"r", "e", "c", "e", "n", "t">>,
    <<"t", "o", "d", "a", "y">>,
    <<"b", "r", "e", "a", "k", "i", "n", "g">>,
    <<"u", "p", "d", "a", "t", "e">>,
    <<"a", "c", "t", "u", "a", "l", "i", "t", "é">>,
    <<"d", "e", "r", "n", "i", "è", "r", "e", "s">>,
    <<"r", "é", "c", "e", "n", "t", "e", "s">>,
    <<"c", "o", "n", "t", "e", "x", "t", "e">>,
    <<"m", "a", "r", "c", "h", "é">>
>>

\* needs_financial from the financial keywords alone
needs_financial_no_company(has_financial, has_company) == has_financial

\* "needs_financial": has_financial or has_company
needs_financial(has_financial, has_company) == has_financial \/ has_company

\* MultiAgentOrchestrator._analyze_query(query)
_analyze_query(query) ==
    LET query_lower == lower(query)
        has_financial == any_in(financial_keywords, query_lower)
        has_company == any_in(company_keywords, query_lower)
        has_news == any_in(news_keywords, query_lower)
    IN  [needs_financial |-> needs_financial(has_financial, has_company),
         needs_news |-> has_news]

(***************************************************************************)
(* The ticker resolver: SimpleFinancialAgent._extract_ticker               *)
(***************************************************************************)
\* alias -> canonical symbol, in the insertion order of the dict
TICKER_PATTERNS == <<
    <<<<"n", "v", "i", "d", "i", "a">>, <<"N", "V", "D", "A">>>>,
    <<<<"n", "v", "d", "a">>, <<"N", "V", "D", "A">>>>,
    <<<<"t", "e", "s", "l", "a">>, <<"T", "S", "L", "A">>>>,
    <<<<"t", "s", "l", "a">>, <<"T", "S", "L", "A">>>>,
    <<<<"a", "p", "p", "l", "e">>, <<"A", "A", "P", "L">>>>,
    <<<<"a", "a", "p", "l">>, <<"A", "A", "P", "L">>>>,
    <<<<"m", "i", "c", "r", "o", "s", "o", "f", "t">>, <<"M", "S", "F", "T">>>>,
    <<<<"m", "s", "f", "t">>, <<"M", "S", "F", "T">>>>,
    <<<<"a", "m", "a", "z", "o", "n">>, <<"A", "M", "Z", "N">>>>,
    <<<<"a", "m", "z", "n">>, <<"A", "M", "Z", "N">>>>,
    <<<<"g", "o", "o", "g", "l", "e">>, <<"G", "O", "O", "G", "L">>>>,
    <<<<"g", "o", "o", "g", "l">>, <<"G", "O", "O", "G", "L">>>>,
    <<<<"g", "o", "o", "g">>, <<"G", "O", "O", "G", "L">>>>,
    <<<<"a", "l", "p", "h", "a", "b", "e", "t">>, <<"G", "O", "O", "G", "L">>>>,
    <<<<"m", "e", "t", "a">>, <<"M", "E", "T", "A">>>>,
    <<<<"f", "a", "c", "e", "b", "o", "o", "k">>, <<"M", "E", "T", "A">>>>,
    <<<<"n", "e", "t", "f", "l", "i", "x">>, <<"N", "F", "L", "X">>>>,
    <<<<"n", "f", "l", "x">>, <<"N", "F", "L", "X">>>>,
    <<<<"a", "m", "d">>, <<"A", "M", "D">>>>,
    <<<<"i", "n", "t", "e", "l">>, <<"I", "N", "T", "C">>>>,
    <<<<"i", "n", "t", "c">>, <<"I", "N", "T", "C">>>>
>>

\* TICKER_PATTERNS.values()
TickerValues == {TICKER_PATTERNS[i][2] : i \in 1..Len(TICKER_PATTERNS)}

\* the loop taking the alias that occurs leftmost in the text
leftmost_alias(query_lower, i) ==
    LET hits == {k \in i..Len(TICKER_PATTERNS) : str_in(TICKER_PATTERNS[k][1], query_lower)}
        at(k) == CHOOSE p \in 1..Len(query_lower) :
                     /\ SubSeq(query_lower, p, p + Len(TICKER_PATTERNS[k][1]) - 1)
                            = TICKER_PATTERNS[k][1]
                     /\ \A r \in 1..(p - 1) :
                            SubSeq(query_lower, r, r + Len(TICKER_PATTERNS[k][1]) - 1)
                                # TICKER_PATTERNS[k][1]
    IN  IF hits = {} THEN None
        ELSE PyStr(TICKER_PATTERNS[CHOOSE k \in hits :
                       \A h \in hits : at(k) < at(h) \/ (at(k) = at(h) /\ k <= h)][2])

RECURSIVE first_alias_names_only(_, _)
\* the loop over a table without the aliases that are lowercase symbols
first_alias_names_only(query_lower, i) ==
    IF i > Len(TICKER_PATTERNS) THEN None
    ELSE IF /\ TICKER_PATTERNS[i][1] # lower(TICKER_PATTERNS[i][2])
            /\ str_in(TICKER_PATTERNS[i][1], query_lower)
    THEN PyStr(TICKER_PATTERNS[i][2])
    ELSE first_alias_names_only(query_lower, i + 1)

RECURSIVE first_alias(_, _)
\* the for loop over TICKER_PATTERNS.items() from item i on: the symbol of
\* the first alias that is in the text, or None
first_alias(query_lower, i) ==
    IF i > Len(TICKER_PATTERNS) THEN None
    ELSE IF str_in(TICKER_PATTERNS[i][1], query_lower) THEN PyStr(TICKER_PATTERNS[i][2])
    ELSE first_alias(query_lower, i + 1)

\* a resolver that returns the uppercase token it finds, in the table or not
_extract_ticker_any_token(query) ==
    LET query_lower == lower(query)
        ticker == first_alias(query_lower, 1)
        ticker_match == re_search_ticker(query)
    IN  IF ticker # None THEN ticker
        ELSE IF ticker_match # None THEN ticker_match
        ELSE None

\* SimpleFinancialAgent._extract_ticker(query)
_extract_ticker(query) ==
    LET query_lower == lower(query)
        ticker == first_alias(query_lower, 1)
        ticker_match == re_search_ticker(query)
    IN  IF ticker # None THEN ticker
        ELSE IF ticker_match # None /\ ticker_match.s \in TickerValues THEN ticker_match
        ELSE None

(***************************************************************************)
(* The inputs of the analyzer and of the resolver                          *)
(***************************************************************************)
\* the most words a query of the model has
MaxWords == 3

Vocabulary == <<
    <<"N", "V", "I", "D", "I", "A">>,
    <<"T", "e", "s", "l", "a">>,
    <<"n", "e", "w", "s">>,
    <<"s", "t", "o", "c", "k">>,
    <<"m", "e", "t", "a", "d", "a", "t", "a">>,
    <<"h", "e", "l", "l", "o">>,
    <<"I", "B", "M">>,
    <<"A", "A", "P", "L">>,
    <<"L", "a", "t", "e", "s", "t">>
>>

Examples == <<
    <<"W", "h", "a", "t", " ", "i", "s", " ", "t", "h", "e", " ", "s", "t", "o", "c", "k", " ", "p", "r", "i", "c", "e", " ", "o", "f", " ", "N", "V", "I", "D", "I", "A", "?">>,
    <<"L", "a", "t", "e", "s", "t", " ", "T", "e", "s", "l", "a", " ", "n", "e", "w", "s">>,
    <<"W", "h", "a", "t", " ", "i", "s", " ", "N", "V", "I", "D", "I", "A", "'", "s", " ", "p", "r", "i", "c", "e", "?">>,
    <<"g", "e", "n", "e", "r", "a", "l", " ", "m", "a", "r", "k", "e", "t", " ", "c", "o", "m", "m", "e", "n", "t", "a", "r", "y">>
>>

RECURSIVE join(_, _)
\* sep.join(words)
join(sep, words) ==
    IF words = <<>> THEN <<>>
    ELSE IF Len(words) = 1 THEN words[1]
    ELSE words[1] \o sep \o join(sep, Tail(words))

\* the texts of one to MaxWords words of the vocabulary, and the examples
Queries ==
    Range(Examples) \cup
    UNION {{join(<<" ">>, ws) : ws \in [1..n -> Range(Vocabulary)]} : n \in 1..MaxWords}

InitText ==
    /\ NoCache
    /\ input \in [fn : {"_analyze_query", "_extract_ticker"}, query : Queries]
    /\ last = [op |-> "init"]

\* one call of MultiAgentOrchestrator._analyze_query
AnalyzeQueryCall ==
    /\ input.fn = "_analyze_query"
    /\ last.op = "init"
    /\ last' = [op |-> "_analyze_query", query |-> input.query,
                ret |-> _analyze_query(input.query)]
    /\ UNCHANGED <<cacheVars, input, memory, calls>>

\* one call of SimpleFinancialAgent._extract_ticker
ExtractTickerCall ==
    /\ input.fn = "_extract_ticker"
    /\ last.op = "init"
    /\ last' = [op |-> "_extract_ticker", query |-> input.query,
                ret |-> _extract_ticker(input.query)]
    /\ UNCHANGED <<cacheVars, input, memory, calls>>

NextText == AnalyzeQueryCall \/ ExtractTickerCall

SpecText == InitText /\ [][NextText]_vars

\* the keyword occurs in the text: some position of the text starts it
Occurs(k, text) ==
    \E i \in 0..(Len(text) - Len(k)) : \A j \in 1..Len(k) : text[i + j] = k[j]

\* C7: needs_financial is true iff the lowercased query contains a financial
\* keyword or a company keyword, needs_news iff it contains a news keyword;
\* the two examples classify as (true, false) and (true, true)
ClassifyByKeywords ==
    last.op = "_analyze_query" =>
        LET text == lower(last.query)
        IN  /\ last.ret.needs_financial =
                   \E k \in Range(financial_keywords) \cup Range(company_keywords) :
                       Occurs(k, text)
            /\ last.ret.needs_news = \E k \in Range(news_keywords) : Occurs(k, text)
            /\ last.query = Examples[1] =>
                   last.ret = [needs_financial |-> TRUE, needs_news |-> FALSE]
            /\ last.query = Examples[2] =>
                   last.ret = [needs_financial |-> TRUE, needs_news |-> TRUE]

\* a query with a company keyword and a news keyword and no financial
\* keyword was classified
ClassifyWitness ==
    /\ last.op = "_analyze_query"
    /\ last.query = Examples[2]
    /\ last.ret.needs_financial /\ last.ret.needs_news

\* C8: when an alias occurs in the lowercased text the resolver returns the
\* symbol of the earliest such alias of the table, wherever the aliases are
\* in the text; with no alias and no explicit symbol token it returns none
FirstAliasWins ==
    last.op = "_extract_ticker" =>
        LET text == lower(last.query)
            hits == {i \in 1..Len(TICKER_PATTERNS) : Occurs(TICKER_PATTERNS[i][1], text)}
        IN  /\ hits # {} =>
                  \E i \in hits : /\ \A h \in hits : i <= h
                                  /\ last.ret = PyStr(TICKER_PATTERNS[i][2])
            /\ (hits = {} /\ TickerSpans(last.query) = {}) => last.ret = None
            /\ last.query = Examples[3] => last.ret = PyStr(<<"N", "V", "D", "A">>)
            /\ last.query = Examples[4] => last.ret = None

\* the text names Tesla before NVIDIA and the resolver returned NVDA, the
\* symbol of the alias that is first in the table
FirstAliasWitness ==
    /\ last.op = "_extract_ticker"
    /\ last.query = join(<<" ">>, <<Vocabulary[2], Vocabulary[1]>>)
    /\ last.ret = PyStr(<<"N", "V", "D", "A">>)

(***************************************************************************)
(* The comparison formatter: SimpleFinancialAgent.compare_stocks           *)
(*                                                                         *)
(* A dict with literal keys is a function from the key names; a text is a  *)
(* sequence of characters and of chunks of fixed text; a multi-line str is *)
(* the sequence of its lines.                                              *)
(***************************************************************************)
\* d.get(k, default)
dict_get(d, k, default) == IF k \in DOMAIN d THEN d[k] ELSE default

\* a call that returned v
Returned(v) == [exc |-> FALSE, ret |-> v]

\* a call that raised
Raised == [exc |-> TRUE, ret |-> None]

\* the text "N/A"
NA == <<"N", "/", "A">>

\* the text "Error"
ERROR == <<"E", "r", "r", "o", "r">>

\* {"error": str(e)}
ErrorMarker == [error |-> PyStr(<<"f", "a", "i", "l">>)]

\* the except clauses leaving an empty dict, not the error marker
_fetch_all_data_no_marker(tools) ==
    [stock        |-> IF tools.stock.exc THEN EmptyMap ELSE tools.stock.ret,
     analysts     |-> IF tools.analysts.exc THEN EmptyMap ELSE tools.analysts.ret,
     fundamentals |-> IF tools.fundamentals.exc THEN EmptyMap ELSE tools.fundamentals.ret,
     news         |-> IF tools.news.exc THEN PyList(<<>>) ELSE tools.news.ret]

\* SimpleFinancialAgent._fetch_all_data(ticker); tools: what the four calls
\* of FinancialTools return or raise
_fetch_all_data(tools) ==
    [stock        |-> IF tools.stock.exc THEN ErrorMarker ELSE tools.stock.ret,
     analysts     |-> IF tools.analysts.exc THEN ErrorMarker ELSE tools.analysts.ret,
     fundamentals |-> IF tools.fundamentals.exc THEN ErrorMarker ELSE tools.fundamentals.ret,
     news         |-> IF tools.news.exc THEN PyList(<<>>) ELSE tools.news.ret]

IsNumber(v) == v.py \in {"int", "float"}

RECURSIVE commas(_)
\* f"{n:,}": the digits of n in groups of three
commas(n) ==
    IF n < 1000 THEN ToString(n)
    ELSE LET r == n % 1000
         IN  commas(n \div 1000) \o ","
             \o (IF r < 10 THEN "00" ELSE IF r < 100 THEN "0" ELSE "") \o ToString(r)

\* the format_func lambdas of _format_comparison; market caps are counted
\* in billions
format_func(fmt, x) ==
    CASE fmt = "str" ->
           Returned(IF x.py = "str" THEN x.s ELSE <<ToString(x.n)>>)
      [] ~IsNumber(x) -> Raised
      [] fmt = "usd2" -> Returned(<<"$", ToString(x.n), ".00">>)
      [] fmt = "comma" -> Returned(<<commas(x.n)>>)
      [] fmt = "cap" -> Returned(IF x.n > 1000 THEN <<"$", ToString(x.n \div 1000), "T">>
                                 ELSE <<"$", ToString(x.n), "B">>)
      [] fmt = "f1" -> Returned(<<ToString(x.n), ".0">>)
      [] fmt = "f2" -> Returned(<<ToString(x.n), ".00">>)
      [] fmt = "pct1" -> Returned(<<ToString(x.n), ".0%">>)

\* the try block of get_val
get_val_try(all_data, ticker, key, subkey, fmt) ==
    LET data == dict_get(all_data[ticker], key, <<>>)
        val == dict_get(data, subkey, PyStr(NA))
    IN  IF "error" \in DOMAIN data THEN Returned(ERROR)
        ELSE IF val = PyStr(NA) \/ val = None THEN Returned(NA)
        ELSE format_func(fmt, val)

\* the bare except of get_val: whatever is raised, "N/A" is returned
except_NA(r) == IF r.exc THEN Returned(NA) ELSE r

\* get_val(ticker, key, subkey, format_func)
get_val(all_data, ticker, key, subkey, fmt) ==
    except_NA(get_val_try(all_data, ticker, key, subkey, fmt))

\* f"| {a} | {b} | ... |"
table_row(cells) ==
    <<"| ">> \o join(<<" | ">>, cells) \o <<" |">>

\* the order in which the keys of all_data were first inserted
RECURSIVE dict_keys(_)
dict_keys(items) ==
    IF items = <<>> THEN <<>>
    ELSE LET rest == dict_keys(SubSeq(items, 1, Len(items) - 1))
             k == items[Len(items)][1]
         IN  IF k \in Range(rest) THEN rest ELSE Append(rest, k)

\* the value last assigned to each key
dict_of(items) ==
    [k \in {items[i][1] : i \in 1..Len(items)} |->
        items[CHOOSE i \in 1..Len(items) :
                  /\ items[i][1] = k
                  /\ \A j \in (i + 1)..Len(items) : items[j][1] # k][2]]

\* day_change: f"{low} - {high}" if both are known
day_change(low, high) ==
    IF low.ret # NA /\ high.ret # NA THEN low.ret \o <<" ", "-", " ">> \o high.ret ELSE NA

\* the row of the price table made of the values of a ticker
price_cells(t, price, currency, low, high, volume) ==
    [exc |-> price.exc \/ currency.exc \/ low.exc \/ high.exc \/ volume.exc,
     ret |-> table_row(<<t, price.ret \o <<" ">> \o currency.ret,
                         day_change(low, high), volume.ret>>)]

\* the body of the loop of the price table
price_row(all_data, t) ==
    price_cells(t, get_val(all_data, t, "stock", "current_price", "usd2"),
                get_val(all_data, t, "stock", "currency", "str"),
                get_val(all_data, t, "stock", "low", "usd2"),
                get_val(all_data, t, "stock", "high", "usd2"),
                get_val(all_data, t, "stock", "volume", "comma"))

\* range_52: f"{low_52} - {high_52}" if the low is known
range_52(low_52, high_52) ==
    IF low_52.ret # NA THEN low_52.ret \o <<" ", "-", " ">> \o high_52.ret ELSE NA

\* the row of the valuation table made of the values of a ticker
cap_cells(t, market_cap, pe, low_52, high_52) ==
    [exc |-> market_cap.exc \/ pe.exc \/ low_52.exc \/ high_52.exc,
     ret |-> table_row(<<t, market_cap.ret, pe.ret, range_52(low_52, high_52)>>)]

\* the body of the loop of the valuation table
cap_row(all_data, t) ==
    cap_cells(t, get_val(all_data, t, "stock", "market_cap", "cap"),
              get_val(all_data, t, "stock", "pe_ratio", "f1"),
              get_val(all_data, t, "stock", "52_week_low", "usd2"),
              get_val(all_data, t, "stock", "52_week_high", "usd2"))

\* the row of the fundamentals table made of the values of a ticker
fund_cells(t, profit, revenue, roe, debt) ==
    [exc |-> profit.exc \/ revenue.exc \/ roe.exc \/ debt.exc,
     ret |-> table_row(<<t, profit.ret, revenue.ret, roe.ret, debt.ret>>)]

\* the body of the loop of the fundamentals table
fund_row(all_data, t) ==
    fund_cells(t, get_val(all_data, t, "fundamentals", "profit_margins", "pct1"),
               get_val(all_data, t, "fundamentals", "revenue_growth", "pct1"),
               get_val(all_data, t, "fundamentals", "return_on_equity", "pct1"),
               get_val(all_data, t, "fundamentals", "debt_to_equity", "f2"))

\* the row of the analyst table made of the values of a ticker
rec_cells(t, rec, target, num) ==
    [exc |-> rec.exc \/ target.exc \/ num.exc,
     ret |-> table_row(<<t, rec.ret, target.ret, num.ret>>)]

\* the body of the loop of the analyst table
rec_row(all_data, t) ==
    rec_cells(t, get_val(all_data, t, "analysts", "recommendation", "str"),
              get_val(all_data, t, "analysts", "target_mean", "usd2"),
              get_val(all_data, t, "analysts", "num_analysts", "str"))

\* the lines of the rows of a table
row_texts(rows) == [i \in 1..Len(rows) |-> rows[i].ret]

\* "\n".join(parts): the four tables under their headings, or the exception
\* of a row
tables(prices, caps, funds, recs) ==
    IF \E rows \in {prices, caps, funds, recs} : \E i \in 1..Len(rows) : rows[i].exc
    THEN Raised
    ELSE Returned(
          << <<"# Stock Comparison">>, <<>>,
             <<"## Current Prices">>,
             <<"| Ticker | Price | Day Change | Volume |">>,
             <<"|--------|-------|------------|--------|">> >>
          \o row_texts(prices) \o
          << <<>>,
             <<"## Market Cap & Valuation">>,
             <<"| Ticker | Market Cap | P/E Ratio | 52-Week Range |">>,
             <<"|--------|------------|-----------|---------------|">> >>
          \o row_texts(caps) \o
          << <<>>,
             <<"## Fundamentals">>,
             <<"| Ticker | Profit Margin | Revenue Growth | ROE | Debt/Equity |">>,
             <<"|--------|---------------|----------------|-----|-------------|">> >>
          \o row_texts(funds) \o
          << <<>>,
             <<"## Analyst Recommendations">>,
             <<"| Ticker | Recommendation | Target Price | # Analysts |">>,
             <<"|--------|----------------|--------------|------------|">> >>
          \o row_texts(recs) \o
          << <<>>, <<"---">>, <<"*Data source: yfinance API (real-time)*">> >>)

\* the four loops over tickers = list(all_data.keys())
comparison_of(all_data, tickers) ==
    tables([i \in 1..Len(tickers) |-> price_row(all_data, tickers[i])],
           [i \in 1..Len(tickers) |-> cap_row(all_data, tickers[i])],
           [i \in 1..Len(tickers) |-> fund_row(all_data, tickers[i])],
           [i \in 1..Len(tickers) |-> rec_row(all_data, tickers[i])])

\* SimpleFinancialAgent._format_comparison(all_data); assigned: the
\* assignments all_data[ticker_upper] = data in the order they were made
_format_comparison(assigned) == comparison_of(dict_of(assigned), dict_keys(assigned))

\* the key of all_data without the upper-casing
ticker_as_given(ticker) == ticker

\* ticker.upper() in the loop of compare_stocks
ticker_upper(ticker) == upper(ticker)

\* the length check without its upper limit
too_many_off(tickers) == FALSE

\* len(tickers) > 5
too_many(tickers) == Len(tickers) > 5

\* return self._format_comparison(all_data), after n calls of _fetch_all_data
compared(r, n) == [exc |-> r.exc, fetches |-> n, ret |-> r.ret]

\* SimpleFinancialAgent.compare_stocks(tickers); tools[i]: what the tools
\* return or raise for the i-th ticker.  fetches counts the calls of
\* _fetch_all_data
compare_stocks(tickers, tools) ==
    IF Len(tickers) < 2
    THEN [exc |-> FALSE, fetches |-> 0,
          ret |-> << <<"Please provide at least 2 tickers to compare.">> >>]
    ELSE IF too_many(tickers)
    THEN [exc |-> FALSE, fetches |-> 0,
          ret |-> << <<"Maximum 5 tickers allowed for comparison.">> >>]
    ELSE compared(_format_comparison([i \in 1..Len(tickers) |->
                      <<ticker_upper(tickers[i]), _fetch_all_data(tools[i])>>]),
                  Len(tickers))

(***************************************************************************)
(* The inputs of the comparison                                            *)
(***************************************************************************)
\* the longest list of tickers given to compare_stocks
MaxTickers == 6

\* the symbols of the lists: one in lower case, one in upper case
TickerNames == {<<"a", "a", "p", "l">>, <<"M", "S", "F", "T">>}

\* {"error": str(e), "ticker": ticker}, the marker the tools return
ToolError == [error |-> PyStr(<<"f", "a", "i", "l">>), ticker |-> PyStr(<<"T">>)]

USD == PyStr(<<"U", "S", "D">>)

\* what FinancialTools.get_stock_data can give: every field, the fields of
\* the mock of the tests, fields that are None, a P/E that is the str
\* "Infinity", the error marker, an exception
StockOutcomes ==
    {Returned([current_price |-> PyInt(150), currency |-> USD, low |-> PyInt(148),
               high |-> PyInt(151), volume |-> PyInt(500), market_cap |-> PyInt(2500),
               pe_ratio |-> PyInt(25), 52_week_low |-> PyInt(120),
               52_week_high |-> PyInt(180)]),
     Returned([current_price |-> PyInt(150), currency |-> USD,
               market_cap |-> PyInt(900), pe_ratio |-> PyInt(25)]),
     Returned([current_price |-> PyInt(150), currency |-> USD, low |-> None,
               high |-> PyInt(151), volume |-> PyInt(500), market_cap |-> None,
               pe_ratio |-> None, 52_week_low |-> PyInt(120), 52_week_high |-> None]),
     Returned([current_price |-> PyInt(150), currency |-> USD, low |-> PyInt(148),
               high |-> PyInt(151), volume |-> PyInt(500), market_cap |-> PyInt(2500),
               pe_ratio |-> PyStr(<<"I", "n", "f">>), 52_week_low |-> None,
               52_week_high |-> PyInt(180)]),
     Returned(ToolError),
     Raised}

AnalystOutcomes ==
    {Returned([recommendation |-> PyStr(<<"b", "u", "y">>), num_analysts |-> PyInt(30),
               target_mean |-> PyInt(175)]),
     Returned([recommendation |-> PyStr(NA), num_analysts |-> None, target_mean |-> None]),
     Returned(ToolError),
     Raised}

FundamentalsOutcomes ==
    {Returned([profit_margins |-> PyInt(25), revenue_growth |-> PyInt(15),
               return_on_equity |-> PyInt(45), debt_to_equity |-> PyInt(1)]),
     Returned([profit_margins |-> PyInt(25), revenue_growth |-> None]),
     Returned(ToolError),
     Raised}

\* what the four tools give for one ticker
ToolOutcomes ==
    [stock : StockOutcomes, analysts : AnalystOutcomes,
     fundamentals : FundamentalsOutcomes, news : {Returned(PyList(<<>>))}]

\* every tool of the ticker fails: by an error marker, or by an exception
AllFail ==
    {[stock |-> o, analysts |-> o, fundamentals |-> o, news |-> Returned(PyList(<<>>))] :
        o \in {Returned(ToolError), Raised}}

\* three ways all tickers of a list can fare alike
Uniform ==
    AllFail \cup
    {[stock |-> CHOOSE o \in StockOutcomes : o.exc = FALSE /\ "volume" \in DOMAIN o.ret
                                                /\ o.ret.pe_ratio = PyInt(25)
                                                /\ o.ret.low # None,
      analysts |-> CHOOSE o \in AnalystOutcomes :
                       o.exc = FALSE /\ "error" \notin DOMAIN o.ret /\ o.ret.num_analysts # None,
      fundamentals |-> CHOOSE o \in FundamentalsOutcomes :
                           o.exc = FALSE /\ "debt_to_equity" \in DOMAIN o.ret,
      news |-> Returned(PyList(<<>>))]}

\* the calls of compare_stocks: lists of every length up to MaxTickers whose
\* tickers fare alike, and pairs of tickers of which one fares in every way
\* and the other in one of the three ways
CompareInputs ==
    UNION {{[fn |-> "compare_stocks", tickers |-> ts, tools |-> [i \in 1..n |-> u]] :
               ts \in [1..n -> TickerNames], u \in Uniform} : n \in 0..MaxTickers}
    \cup
    UNION {{[fn |-> "compare_stocks", tickers |-> ts, tools |-> <<a, u>>],
            [fn |-> "compare_stocks", tickers |-> ts, tools |-> <<u, a>>]} :
        ts \in {<<<<"A", "A", "P", "L">>, <<"M", "S", "F", "T">>>>,
                <<<<"a", "a", "p", "l">>, <<"A", "A", "P", "L">>>>},
        a \in ToolOutcomes, u \in Uniform}

InitCompare ==
    /\ NoCache
    /\ input \in CompareInputs
    /\ last = [op |-> "init"]

\* the record of a call of compare_stocks that ended as r
compare_call(tickers, tools, r) ==
    [op |-> "compare_stocks", tickers |-> tickers, tools |-> tools, ret |-> r.ret,
     raised |-> r.exc, fetches |-> r.fetches]

\* one call of SimpleFinancialAgent.compare_stocks
CompareStocksCall ==
    /\ input.fn = "compare_stocks"
    /\ last.op = "init"
    /\ last' = compare_call(input.tickers, input.tools,
                            compare_stocks(input.tickers, input.tools))
    /\ UNCHANGED <<cacheVars, input, memory, calls>>

NextCompare == CompareStocksCall

SpecCompare == InitCompare /\ [][NextCompare]_vars

\* the lines of a report that are the table rows of the ticker t
RowsOf(report, t) ==
    SelectSeq(report, LAMBDA line : startswith(line, <<"| ">> \o t \o <<" | ">>))

RECURSIVE SplitAt(_, _)
\* the pieces of a text between the occurrences of the chunk sep
SplitAt(text, sep) ==
    IF \A i \in 1..Len(text) : text[i] # sep THEN <<text>>
    ELSE LET i == CHOOSE k \in 1..Len(text) :
                      text[k] = sep /\ \A j \in 1..(k - 1) : text[j] # sep
         IN  <<SubSeq(text, 1, i - 1)>> \o SplitAt(SubSeq(text, i + 1, Len(text)), sep)

\* the cells of a table row
Cells(row) == SplitAt(SubSeq(row, 2, Len(row) - 1), " | ")

\* the report is the table of four sections
MultiSection(report) ==
    \A h \in {"## Current Prices", "## Market Cap & Valuation", "## Fundamentals",
              "## Analyst Recommendations"} : <<h>> \in Range(report)

\* the report is one of the two explanations
Explanation(report) ==
    report \in {<< <<"Please provide at least 2 tickers to compare.">> >>,
                << <<"Maximum 5 tickers allowed for comparison.">> >>}

\* the original reading of C9: with 2 to 5 symbols the report contains
\* every symbol as it was given
CompareContainsGiven ==
    last.op = "compare_stocks" =>
        /\ ~last.raised
        /\ Len(last.tickers) \notin 2..5 => Explanation(last.ret) /\ last.fetches = 0
        /\ Len(last.tickers) \in 2..5 =>
               /\ MultiSection(last.ret)
               /\ \A i \in 1..Len(last.tickers) :
                      \E line \in Range(last.ret) : str_in(last.tickers[i], line)

\* C9: with fewer than 2 or more than 5 symbols compare returns an
\* explanation, raises nothing and fetches nothing; with 2 to 5 symbols it
\* returns the four-section table, which contains the upper-cased form of
\* every symbol given
CompareBoundary ==
    last.op = "compare_stocks" =>
        /\ ~last.raised
        /\ Len(last.tickers) \notin 2..5 => Explanation(last.ret) /\ last.fetches = 0
        /\ Len(last.tickers) \in 2..5 =>
               /\ MultiSection(last.ret)
               /\ \A i \in 1..Len(last.tickers) :
                      RowsOf(last.ret, upper(last.tickers[i])) # <<>>

\* six symbols were refused without a fetch
CompareBoundaryWitness ==
    /\ last.op = "compare_stocks"
    /\ Len(last.tickers) = 6
    /\ last.fetches = 0
    /\ Explanation(last.ret)

\* the category of each section and the fields each of its cells shows
SectionCategory == <<"stock", "stock", "fundamentals", "analysts">>

SectionFields ==
    << <<{"current_price", "currency"}, {"low", "high"}, {"volume"}>>,
       <<{"market_cap"}, {"pe_ratio"}, {"52_week_low", "52_week_high"}>>,
       <<{"profit_margins"}, {"revenue_growth"}, {"return_on_equity"}, {"debt_to_equity"}>>,
       <<{"recommendation"}, {"target_mean"}, {"num_analysts"}>> >>

\* the fetch of the category failed: the tool raised or gave an error marker
Failed(outcome) == outcome.exc \/ "error" \in DOMAIN outcome.ret

\* the record of the category has no value for the field
Absent(outcome, field) ==
    \/ field \notin DOMAIN outcome.ret
    \/ outcome.ret[field] = None
    \/ outcome.ret[field] = PyStr(NA)

\* the position whose data the row of the symbol t shows: its last one
ShownAt(tickers, t) ==
    CHOOSE i \in 1..Len(tickers) :
        /\ upper(tickers[i]) = t
        /\ \A j \in (i + 1)..Len(tickers) : upper(tickers[j]) # t

\* C10: with 2 to 5 symbols compare does not raise, whatever fetches fail
\* or lack fields; every cell of a failed category shows "Error", every
\* absent field shows "N/A" in its cell, and the rows of a symbol stay the
\* same when all fetches of another symbol fail instead
ComparePartialData ==
    (last.op = "compare_stocks" /\ Len(last.tickers) \in 2..5) =>
        /\ ~last.raised
        /\ \A t \in {upper(last.tickers[i]) : i \in 1..Len(last.tickers)} :
               LET tools == last.tools[ShownAt(last.tickers, t)]
                   rows == RowsOf(last.ret, t)
               IN  /\ Len(rows) = 4
                   /\ \A sec \in 1..4 :
                          LET cells == Cells(rows[sec])
                              outcome == tools[SectionCategory[sec]]
                          IN  /\ Len(cells) = Len(SectionFields[sec]) + 1
                              /\ \A c \in 2..Len(cells) :
                                     IF Failed(outcome) THEN str_in(ERROR, cells[c])
                                     ELSE \A f \in SectionFields[sec][c - 1] :
                                              Absent(outcome, f) => str_in(NA, cells[c])
        /\ \A j \in 1..Len(last.tickers) : \A fail \in AllFail :
               LET other == compare_stocks(last.tickers, [last.tools EXCEPT ![j] = fail])
               IN  \A i \in 1..Len(last.tickers) :
                       upper(last.tickers[i]) # upper(last.tickers[j]) =>
                           RowsOf(other.ret, upper(last.tickers[i]))
                               = RowsOf(last.ret, upper(last.tickers[i]))

\* two symbols were compared, the quote of the first failed and the quote
\* of the second lacks fields and has a P/E that is no number
ComparePartialWitness ==
    /\ last.op = "compare_stocks"
    /\ last.tickers = <<<<"A", "A", "P", "L">>, <<"M", "S", "F", "T">>>>
    /\ Failed(last.tools[1].stock)
    /\ ~Failed(last.tools[2].stock)
    /\ Absent(last.tools[2].stock, "52_week_low")
    /\ last.tools[2].stock.ret.pe_ratio.py = "str"
    /\ ~last.raised

RECURSIVE FirstOccurrences(_)
\* the distinct elements of a list in the order of their first occurrence
FirstOccurrences(seq) ==
    IF seq = <<>> THEN <<>>
    ELSE LET rest == FirstOccurrences(SubSeq(seq, 2, Len(seq)))
         IN  <<seq[1]>> \o SelectSeq(rest, LAMBDA x : x # seq[1])

\* the lines of a report under the heading h, up to the next empty line
SectionLines(report, h) ==
    LET at == CHOOSE i \in 1..Len(report) : report[i] = <<h>>
        end == CHOOSE k \in (at + 1)..Len(report) :
                   /\ report[k] = <<>>
                   /\ \A j \in (at + 1)..(k - 1) : report[j] # <<>>
    IN  SubSeq(report, at + 1, end - 1)

\* the first cells of the rows of the table under the heading h, the two
\* lines of the table head left out
TickerColumn(report, h) ==
    LET lines == SectionLines(report, h)
    IN  [i \in 1..(Len(lines) - 2) |-> Cells(lines[i + 2])[1]]

\* the upper-cased forms of the symbols of a list
Uppered(tickers) == [i \in 1..Len(tickers) |-> upper(tickers[i])]

\* C30: compare checks the length of the list as it was given and fetches
\* once for each of its entries, but every table of the report has exactly
\* one row for each distinct upper-cased symbol, in the order of first
\* occurrence, which is fewer rows than entries when symbols repeat
OneRowPerSymbol ==
    (last.op = "compare_stocks" /\ Len(last.tickers) \in 2..5) =>
        /\ ~last.raised
        /\ last.fetches = Len(last.tickers)
        /\ MultiSection(last.ret)
        /\ \A h \in {"## Current Prices", "## Market Cap & Valuation",
                      "## Fundamentals", "## Analyst Recommendations"} :
               TickerColumn(last.ret, h) = FirstOccurrences(Uppered(last.tickers))

\* "aapl" and "AAPL" passed the length check, two fetches were made and
\* every table has the single row of AAPL
OneRowPerSymbolWitness ==
    /\ last.op = "compare_stocks"
    /\ last.tickers = <<<<"a", "a", "p", "l">>, <<"A", "A", "P", "L">>>>
    /\ last.fetches = 2
    /\ MultiSection(last.ret)
    /\ TickerColumn(last.ret, "## Current Prices") = <<<<"A", "A", "P", "L">>>>
    /\ Len(RowsOf(last.ret, <<"A", "A", "P", "L">>)) = 4

(***************************************************************************)
(* The data tools: FinancialTools and WebSearchTools over the cache store. *)
(* A str built by a pass is a sequence of characters and of chunks of      *)
(* fixed text, with the chunk "\n" between its lines, so that it is empty  *)
(* exactly when the Python str is.  Pictographs of the fixed labels are    *)
(* left out of the chunks.                                                 *)
(***************************************************************************)
\* what a step of a pass leaves: the value returned, the store and the
\* providers that were called
Fetched(ret, cs, contacted) == [ret |-> ret, cs |-> cs, contacted |-> contacted]

\* datetime.now().isoformat()
isoformat(t) == PyStr(<<ToString(t)>>)

\* a tool body that caches every result for the default TTL
cached_fetch_default_ttl(cs, t, fault, prefix, arg, ttl, provider, error) ==
    LET cache_key == _generate_key(prefix, PyStr(arg))
        cached == get(cs, cache_key, t, fault)
    IN  IF Truthy(cached.ret) THEN Fetched(cached.ret, cached.cs, {})
        ELSE IF provider.exc THEN Fetched(error, cached.cs, {Str(prefix)})
        ELSE Fetched(provider.ret,
                     set(cached.cs, cache_key, provider.ret, PyInt(CACHE_TTL), t, fault).cs,
                     {Str(prefix)})

\* the body the five tools share: the value under the key if the cache gives
\* a truthy one; else the provider is called, its result cached for ttl
\* seconds and returned, or the error marker returned if it raised
cached_fetch(cs, t, fault, prefix, arg, ttl, provider, error) ==
    LET cache_key == _generate_key(prefix, PyStr(arg))
        cached == get(cs, cache_key, t, fault)
    IN  IF Truthy(cached.ret) THEN Fetched(cached.ret, cached.cs, {})
        ELSE IF provider.exc THEN Fetched(error, cached.cs, {Str(prefix)})
        ELSE Fetched(provider.ret,
                     set(cached.cs, cache_key, provider.ret, PyInt(ttl), t, fault).cs,
                     {Str(prefix)})

\* {"error": str(e), "ticker": ticker}
error_of(ticker) == [error |-> PyStr(<<"f", "a", "i", "l">>), ticker |-> PyStr(ticker)]

\* FinancialTools.get_stock_data(ticker); yf: stock.info and the last row of
\* stock.history, or the exception of the provider or of an empty history
get_stock_data(cs, t, fault, ticker, yf) ==
    cached_fetch(cs, t, fault, <<"s", "t", "o", "c", "k", "_", "d", "a", "t", "a">>, ticker, 300,
        IF yf.exc THEN Raised
        ELSE Returned(
            [ticker |-> PyStr(ticker),
             current_price |-> dict_get(yf.ret.info, "currentPrice", yf.ret.latest.Close),
             open |-> yf.ret.latest.Open,
             high |-> yf.ret.latest.High,
             low |-> yf.ret.latest.Low,
             close |-> yf.ret.latest.Close,
             volume |-> yf.ret.latest.Volume,
             currency |-> dict_get(yf.ret.info, "currency", USD),
             market_cap |-> dict_get(yf.ret.info, "marketCap", None),
             pe_ratio |-> dict_get(yf.ret.info, "trailingPE", None),
             dividend_yield |-> dict_get(yf.ret.info, "dividendYield", None),
             52_week_high |-> dict_get(yf.ret.info, "fiftyTwoWeekHigh", None),
             52_week_low |-> dict_get(yf.ret.info, "fiftyTwoWeekLow", None),
             timestamp |-> isoformat(t)]),
        error_of(ticker))

\* FinancialTools.get_analyst_recommendations(ticker); yf: stock.info
get_analyst_recommendations(cs, t, fault, ticker, yf) ==
    cached_fetch(cs, t, fault, <<"a", "n", "a", "l", "y", "s", "t", "_", "r", "e", "c", "s">>, ticker, 3600,
        IF yf.exc THEN Raised
        ELSE Returned(
            [ticker |-> PyStr(ticker),
             recommendation |-> dict_get(yf.ret, "recommendationKey", PyStr(NA)),
             mean_recommendation |-> dict_get(yf.ret, "recommendationMean", None),
             num_analysts |-> dict_get(yf.ret, "numberOfAnalystOpinions", None),
             target_mean |-> dict_get(yf.ret, "targetMeanPrice", None),
             target_high |-> dict_get(yf.ret, "targetHighPrice", None),
             target_low |-> dict_get(yf.ret, "targetLowPrice", None),
             timestamp |-> isoformat(t)]),
        error_of(ticker))

\* FinancialTools.get_fundamentals(ticker); yf: stock.info
get_fundamentals(cs, t, fault, ticker, yf) ==
    cached_fetch(cs, t, fault, <<"f", "u", "n", "d", "a", "m", "e", "n", "t", "a", "l", "s">>, ticker, 3600,
        IF yf.exc THEN Raised
        ELSE Returned(
            [ticker |-> PyStr(ticker),
             market_cap |-> dict_get(yf.ret, "marketCap", None),
             pe_ratio |-> dict_get(yf.ret, "trailingPE", None),
             forward_pe |-> dict_get(yf.ret, "forwardPE", None),
             peg_ratio |-> dict_get(yf.ret, "pegRatio", None),
             price_to_book |-> dict_get(yf.ret, "priceToBook", None),
             debt_to_equity |-> dict_get(yf.ret, "debtToEquity", None),
             return_on_equity |-> dict_get(yf.ret, "returnOnEquity", None),
             profit_margins |-> dict_get(yf.ret, "profitMargins", None),
             operating_margins |-> dict_get(yf.ret, "operatingMargins", None),
             revenue_growth |-> dict_get(yf.ret, "revenueGrowth", None),
             earnings_growth |-> dict_get(yf.ret, "earningsGrowth", None),
             timestamp |-> isoformat(t)]),
        error_of(ticker))

\* FinancialTools.get_company_news(ticker, limit=5); yf: stock.news
get_company_news(cs, t, fault, ticker, yf) ==
    cached_fetch(cs, t, fault, <<"c", "o", "m", "p", "a", "n", "y", "_", "n", "e", "w", "s">>, ticker \o <<"_", "5">>, 300,
        IF yf.exc THEN Raised
        ELSE Returned(PyList(
            [i \in 1..(IF Len(yf.ret.items) < 5 THEN Len(yf.ret.items) ELSE 5) |->
                [title |-> dict_get(yf.ret.items[i], "title", PyStr(<<>>)),
                 publisher |-> dict_get(yf.ret.items[i], "publisher", PyStr(<<>>)),
                 link |-> dict_get(yf.ret.items[i], "link", PyStr(<<>>)),
                 published |-> dict_get(yf.ret.items[i], "providerPublishTime", None),
                 related_tickers |-> dict_get(yf.ret.items[i], "relatedTickers", PyList(<<>>))]])),
        PyList(<<[error |-> PyStr(<<"f", "a", "i", "l">>)]>>))

\* WebSearchTools._extract_source(url): the netloc of the url without a
\* leading "www."; a url is the chunks <<scheme, host, path>> or
\* <<scheme, "www.", host, path>>
_extract_source(url) ==
    IF url.s = <<>> THEN PyStr(<<>>)
    ELSE IF url.s[2] = "www." THEN PyStr(<<url.s[3]>>)
    ELSE PyStr(<<url.s[2]>>)

\* WebSearchTools.search_web(query); ddgs: what DDGS.text returns or raises
search_web(cs, t, fault, query, ddgs) ==
    cached_fetch(cs, t, fault, <<"w", "e", "b", "_", "s", "e", "a", "r", "c", "h">>, query, 300,
        IF ddgs.exc THEN Raised
        ELSE Returned(PyList(
            [i \in 1..Len(ddgs.ret.items) |->
                [title |-> dict_get(ddgs.ret.items[i], "title", PyStr(<<>>)),
                 snippet |-> dict_get(ddgs.ret.items[i], "body", PyStr(<<>>)),
                 link |-> dict_get(ddgs.ret.items[i], "href", PyStr(<<>>)),
                 source |-> _extract_source(dict_get(ddgs.ret.items[i], "href", PyStr(<<>>))),
                 timestamp |-> isoformat(t)]])),
        PyList(<<[error |-> PyStr(<<"f", "a", "i", "l">>), query |-> PyStr(query)]>>))

(***************************************************************************)
(* The pure steps of a pass of the orchestrator                            *)
(***************************************************************************)
\* the companies table of _simplify_query, in its order
companies == <<
    <<<<"a", "a", "p", "l">>, <<"A", "A", "P", "L", " ", "A", "p", "p", "l", "e", " ", "s", "t", "o", "c", "k", " ", "n", "e", "w", "s", " ", "2", "0", "2", "4">>>>,
    <<<<"a", "p", "p", "l", "e">>, <<"A", "A", "P", "L", " ", "A", "p", "p", "l", "e", " ", "s", "t", "o", "c", "k", " ", "n", "e", "w", "s", " ", "2", "0", "2", "4">>>>,
    <<<<"n", "v", "d", "a">>, <<"N", "V", "D", "A", " ", "N", "V", "I", "D", "I", "A", " ", "s", "t", "o", "c", "k", " ", "n", "e", "w", "s", " ", "2", "0", "2", "4">>>>,
    <<<<"n", "v", "i", "d", "i", "a">>, <<"N", "V", "D", "A", " ", "N", "V", "I", "D", "I", "A", " ", "s", "t", "o", "c", "k", " ", "n", "e", "w", "s", " ", "2", "0", "2", "4">>>>,
    <<<<"t", "s", "l", "a">>, <<"T", "S", "L", "A", " ", "T", "e", "s", "l", "a", " ", "s", "t", "o", "c", "k", " ", "n", "e", "w", "s", " ", "2", "0", "2", "4">>>>,
    <<<<"t", "e", "s", "l", "a">>, <<"T", "S", "L", "A", " ", "T", "e", "s", "l", "a", " ", "s", "t", "o", "c", "k", " ", "n", "e", "w", "s", " ", "2", "0", "2", "4">>>>,
    <<<<"m", "s", "f", "t">>, <<"M", "S", "F", "T", " ", "M", "i", "c", "r", "o", "s", "o", "f", "t", " ", "s", "t", "o", "c", "k", " ", "n", "e", "w", "s", " ", "2", "0", "2", "4">>>>,
    <<<<"g", "o", "o", "g", "l">>, <<"G", "O", "O", "G", "L", " ", "G", "o", "o", "g", "l", "e", " ", "s", "t", "o", "c", "k", " ", "n", "e", "w", "s", " ", "2", "0", "2", "4">>>>,
    <<<<"a", "m", "z", "n">>, <<"A", "M", "Z", "N", " ", "A", "m", "a", "z", "o", "n", " ", "s", "t", "o", "c", "k", " ", "n", "e", "w", "s", " ", "2", "0", "2", "4">>>>,
    <<<<"m", "e", "t", "a">>, <<"M", "E", "T", "A", " ", "s", "t", "o", "c", "k", " ", "n", "e", "w", "s", " ", "2", "0", "2", "4">>>>,
    <<<<"a", "m", "d">>, <<"A", "M", "D", " ", "s", "t", "o", "c", "k", " ", "n", "e", "w", "s", " ", "2", "0", "2", "4">>>>,
    <<<<"i", "n", "t", "e", "l">>, <<"I", "N", "T", "C", " ", "I", "n", "t", "e", "l", " ", "s", "t", "o", "c", "k", " ", "n", "e", "w", "s", " ", "2", "0", "2", "4">>>>
>>

RECURSIVE first_company(_, _)
\* the for loop over companies.items() from item i on
first_company(query_lower, i) ==
    IF i > Len(companies) THEN None
    ELSE IF str_in(companies[i][1], query_lower) THEN PyStr(companies[i][2])
    ELSE first_company(query_lower, i + 1)

\* MultiAgentOrchestrator._simplify_query(query)
_simplify_query(query) ==
    LET search_term == first_company(lower(query), 1)
    IN  IF search_term # None THEN search_term.s ELSE query

\* the French marker words of _strict_synthesis
synthesis_markers == <<
    <<"a", "n", "a", "l", "y", "s", "e">>,
    <<"a", "c", "t", "i", "o", "n">>,
    <<"b", "o", "u", "r", "s", "e">>,
    <<"c", "o", "u", "r", "s">>,
    <<"r", "é", "s", "u", "l", "t", "a", "t", "s">>,
    <<"m", "a", "r", "c", "h", "é">>,
    <<"d", "o", "n", "n", "e", "z">>,
    <<"d", "o", "n", "n", "e">>
>>

\* the French marker words of _reformat_data
reformat_markers == <<
    <<"a", "n", "a", "l", "y", "s", "e">>,
    <<"a", "c", "t", "i", "o", "n">>,
    <<"b", "o", "u", "r", "s", "e">>,
    <<"c", "o", "u", "r", "s">>,
    <<"d", "o", "n", "n", "e">>
>>

\* "French" if is_french else "English"
lang_of(markers, query) == IF any_in(markers, lower(query)) THEN "French" ELSE "English"

\* the queries put to the orchestrator: both sources, the web alone, a
\* financial word without a company, a company alone
OrchQueries == {
    <<"N", "V", "I", "D", "I", "A", " ", "s", "t", "o", "c", "k", " ", "n", "e", "w", "s">>,
    <<"h", "e", "l", "l", "o">>,
    <<"s", "t", "o", "c", "k">>,
    <<"N", "V", "I", "D", "I", "A">>}

\* what the pure steps of a pass make of each query of the model, worked out
\* once: _analyze_query, _extract_ticker, _simplify_query and the language
\* each prompt asks for
Parsed ==
    [q \in OrchQueries |->
        [analysis |-> _analyze_query(q),
         ticker |-> _extract_ticker(q),
         search_query |-> _simplify_query(q),
         synthesis_lang |-> lang_of(synthesis_markers, q),
         reformat_lang |-> lang_of(reformat_markers, q)]]

(***************************************************************************)
(* SimpleFinancialAgent.query and its formatter                            *)
(***************************************************************************)
\* f"{v}"
str_of(v) ==
    CASE v.py = "str" -> v.s
      [] v.py = "int" -> <<ToString(v.n)>>
      [] v.py = "None" -> <<"None">>

RECURSIVE flatten(_)
\* the lists of lines appended one after the other
flatten(seqs) == IF seqs = <<>> THEN <<>> ELSE Head(seqs) \o flatten(Tail(seqs))

\* the line if the condition holds
line_if(cond, line) == IF cond THEN <<line>> ELSE <<>>

\* title.strip(): whether anything but blanks is left
strip_nonempty(s) == \E i \in 1..Len(s) : s[i] \notin {" ", "\n", "\t"}

\* the news items _format_response keeps
valid_item(item) ==
    LET title == dict_get(item, "title", None)
    IN  /\ Truthy(title)
        /\ strip_nonempty(title.s)
        /\ title.s # <<"*", "*", "*", "*">>

\* results[:n]
first_n(items, n) == SubSeq(items, 1, IF Len(items) < n THEN Len(items) ELSE n)

\* SimpleFinancialAgent._format_response(ticker, data): the text, or the
\* exception of a format that cannot print its value
_format_response(ticker, data) ==
    LET stock == dict_get(data, "stock", EmptyMap)
        analysts == dict_get(data, "analysts", EmptyMap)
        funds == dict_get(data, "fundamentals", EmptyMap)
        news == dict_get(data, "news", PyList(<<>>))
        val(d, k) == str_of(dict_get(d, k, PyStr(NA)))
        has(d, k) == Truthy(dict_get(d, k, None))
        volume == format_func("comma", dict_get(stock, "volume", PyStr(NA)))
        market_cap == format_func("comma", dict_get(stock, "market_cap", PyInt(0)))
        pct(k) == format_func("pct1", dict_get(funds, k, PyInt(0)))
        stock_ok == "error" \notin DOMAIN stock
        funds_ok == "error" \notin DOMAIN funds
        raises ==
            \/ stock_ok /\ (volume.exc \/ (has(stock, "market_cap") /\ market_cap.exc))
            \/ funds_ok /\ \E k \in {"profit_margins", "revenue_growth", "return_on_equity"} :
                               has(funds, k) /\ pct(k).exc
        stock_lines ==
            IF stock_ok
            THEN << <<"## Stock Data for ">> \o ticker,
                    <<"- **Current Price**: $">> \o val(stock, "current_price")
                        \o <<" ">> \o str_of(dict_get(stock, "currency", USD)),
                    <<"- **Day Range**: $">> \o val(stock, "low")
                        \o <<" - $">> \o val(stock, "high"),
                    <<"- **Volume**: ">> \o volume.ret >>
                 \o line_if(has(stock, "market_cap"),
                            <<"- **Market Cap**: $">> \o market_cap.ret)
                 \o << <<"- **P/E Ratio**: ">> \o val(stock, "pe_ratio"),
                       <<"- **52-Week Range**: $">> \o val(stock, "52_week_low")
                           \o <<" - $">> \o val(stock, "52_week_high"),
                       <<"- **Data Timestamp**: ">> \o val(stock, "timestamp") >>
            ELSE << <<"Could not fetch stock data: ">>
                        \o str_of(dict_get(stock, "error", None)) >>
        analyst_lines ==
            IF "error" \notin DOMAIN analysts
            THEN << <<"## Analyst Recommendations">>,
                    <<"- **Recommendation**: ">> \o val(analysts, "recommendation"),
                    <<"- **Number of Analysts**: ">> \o val(analysts, "num_analysts") >>
                 \o line_if(has(analysts, "target_mean"),
                            <<"- **Target Price (Mean)**: $">> \o val(analysts, "target_mean"))
                 \o line_if(has(analysts, "target_high") /\ has(analysts, "target_low"),
                            <<"- **Target Range**: $">> \o val(analysts, "target_low")
                                \o <<" - $">> \o val(analysts, "target_high"))
            ELSE <<>>
        funds_lines ==
            IF funds_ok
            THEN << <<"## Fundamentals">> >>
                 \o line_if(has(funds, "profit_margins"),
                            <<"- **Profit Margin**: ">> \o pct("profit_margins").ret)
                 \o line_if(has(funds, "revenue_growth"),
                            <<"- **Revenue Growth**: ">> \o pct("revenue_growth").ret)
                 \o line_if(has(funds, "return_on_equity"),
                            <<"- **Return on Equity**: ">> \o pct("return_on_equity").ret)
                 \o << <<"- **Debt to Equity**: ">> \o val(funds, "debt_to_equity") >>
            ELSE <<>>
        valid_news == first_n(SelectSeq(news.items, valid_item), 3)
        news_lines ==
            IF valid_news # <<>>
            THEN << <<"## Recent News (yfinance)">> >>
                 \o flatten([i \in 1..Len(valid_news) |->
                        << <<ToString(i), ". **">> \o valid_news[i].title.s \o <<"**">> >>
                        \o line_if(has(valid_news[i], "publisher"),
                                   <<"   Publisher: ">>
                                       \o str_of(dict_get(valid_news[i], "publisher", None)))])
            ELSE <<>>
    IN  IF raises THEN Raised
        ELSE Returned(join(<<"\n">>,
                 stock_lines \o << <<>> >> \o analyst_lines \o << <<>> >>
                 \o funds_lines \o << <<>> >> \o news_lines))

\* results is empty or the one error entry of a failed search
no_results(results) ==
    \/ ~Truthy(results)
    \/ Len(results.items) = 1 /\ "error" \in DOMAIN results.items[1]

\* the text _web_search_response makes of what search_web returned
web_search_text(results) ==
    IF no_results(results)
    THEN <<"Could not find relevant information for your query.">>
    ELSE join(<<"\n">>,
             << <<"## Web Search Results\n">> >>
             \o flatten([i \in 1..Len(first_n(results.items, 5)) |->
                    << <<ToString(i), ". **">>
                           \o str_of(dict_get(results.items[i], "title", PyStr(<<"No title">>)))
                           \o <<"**">>,
                       <<"   ">> \o str_of(dict_get(results.items[i], "snippet", PyStr(<<>>))),
                       <<"   Source: ">>
                           \o str_of(dict_get(results.items[i], "source", PyStr(<<"Unknown">>)))
                           \o <<"\n">> >>]))

\* _web_search_response once search_web has returned
search_response(searched) ==
    Fetched(web_search_text(searched.ret), searched.cs, searched.contacted)

\* SimpleFinancialAgent._web_search_response(query)
_web_search_response(cs, t, fault, query, ddgs) ==
    search_response(search_web(cs, t, fault, query, ddgs))

\* what _fetch_all_data has after a tool call: data[category] is what the
\* tool returned, and the store and the providers called so far
fetched_into(acc, category, fetched) ==
    [data |-> With(acc.data, category, Returned(fetched.ret)),
     cs |-> fetched.cs,
     contacted |-> acc.contacted \cup fetched.contacted]

\* the four tool calls of _fetch_all_data, in their order
with_stock(acc, t, ticker, env) ==
    fetched_into(acc, "stock", get_stock_data(acc.cs, t, env.fault, ticker, env.stock))

with_analysts(acc, t, ticker, env) ==
    fetched_into(acc, "analysts",
                 get_analyst_recommendations(acc.cs, t, env.fault, ticker, env.analysts))

with_fundamentals(acc, t, ticker, env) ==
    fetched_into(acc, "fundamentals",
                 get_fundamentals(acc.cs, t, env.fault, ticker, env.fundamentals))

with_news(acc, t, ticker, env) ==
    fetched_into(acc, "news", get_company_news(acc.cs, t, env.fault, ticker, env.news))

\* real_data = await self._fetch_all_data(ticker), over the store cs
fetch_all(cs, t, ticker, env) ==
    with_news(
        with_fundamentals(
            with_analysts(
                with_stock([data |-> EmptyMap, cs |-> cs, contacted |-> {}], t, ticker, env),
                t, ticker, env),
            t, ticker, env),
        t, ticker, env)

\* formatted = self._format_response(ticker, real_data)
formatted(ticker, fetched) ==
    Fetched(_format_response(ticker, _fetch_all_data(fetched.data)),
            fetched.cs, fetched.contacted)

\* the text of _web_search_response, returned to the caller
returned_text(searched) == Fetched(Returned(searched.ret), searched.cs, searched.contacted)

\* SimpleFinancialAgent.query(query); env: what the providers give in this
\* pass.  ret is the text returned, or the exception that leaves the call
financial_agent_query(cs, t, query, env) ==
    IF ~Truthy(Parsed[query].ticker)
    THEN returned_text(_web_search_response(cs, t, env.fault, query, env.search))
    ELSE formatted(Parsed[query].ticker.s, fetch_all(cs, t, Parsed[query].ticker.s, env))

(***************************************************************************)
(* The orchestrator: MultiAgentOrchestrator.query                          *)
(***************************************************************************)
\* the text _fetch_web_data makes of what search_web returned
web_data_text(results) ==
    IF no_results(results) THEN <<>>
    ELSE join(<<"\n">>,
             flatten([i \in 1..Len(first_n(results.items, 5)) |->
                 << <<ToString(i), ". ">>
                        \o str_of(dict_get(results.items[i], "title", PyStr(<<"No title">>))),
                    <<"   ">> \o str_of(dict_get(results.items[i], "snippet", PyStr(<<>>))),
                    <<"   Source: ">>
                        \o str_of(dict_get(results.items[i], "source", PyStr(<<"Unknown">>))) >>]))

\* _fetch_web_data once search_web has returned
web_data_of(searched) ==
    Fetched(web_data_text(searched.ret), searched.cs, searched.contacted)

\* MultiAgentOrchestrator._fetch_web_data(query)
_fetch_web_data(cs, t, fault, query, ddgs) ==
    web_data_of(search_web(cs, t, fault, Parsed[query].search_query, ddgs))

\* what synthesis_llm.invoke can do with a prompt: raise, or answer with an
\* empty content, or with the data of the prompt under a heading in the
\* language asked for
LLMOutcomes == {"raise", "empty", "copy"}

\* synthesis_llm.invoke(prompt).content
invoke(prompt, llm) ==
    CASE llm = "raise" -> Raised
      [] llm = "empty" -> Returned(<<>>)
      [] llm = "copy" -> Returned(<<"[" \o prompt.lang \o "]", "\n">> \o prompt.data)

\* a fallback that leaves the web block out
_format_fallback_no_web(financial_data, web_data) ==
    join(<<"\n">>,
        (IF financial_data # <<>>
         THEN << <<"## Données Financières (yfinance API)">>, financial_data >> ELSE <<>>)
        \o << <<"\n---">>,
              <<"*Sources: yfinance API (données en temps réel), DuckDuckGo (actualités)*">> >>)

\* MultiAgentOrchestrator._format_fallback(financial_data, web_data)
_format_fallback(financial_data, web_data) ==
    join(<<"\n">>,
        (IF financial_data # <<>>
         THEN << <<"## Données Financières (yfinance API)">>, financial_data >> ELSE <<>>)
        \o (IF web_data # <<>>
            THEN << <<"\n## Actualités (DuckDuckGo)">>, web_data >> ELSE <<>>)
        \o << <<"\n---">>,
              <<"*Sources: yfinance API (données en temps réel), DuckDuckGo (actualités)*">> >>)

\* MultiAgentOrchestrator._strict_synthesis(query, financial_data, web_data)
_strict_synthesis(query, financial_data, web_data, llm) ==
    LET prompt == [kind |-> "synthesis", lang |-> Parsed[query].synthesis_lang,
                   data |-> financial_data \o <<"\n">> \o web_data]
        response == invoke(prompt, llm)
    IN  IF response.exc THEN _format_fallback(financial_data, web_data)
        ELSE response.ret

\* MultiAgentOrchestrator._reformat_data(query, data, data_type)
_reformat_data(query, data, data_type, llm) ==
    LET prompt == [kind |-> data_type, lang |-> Parsed[query].reformat_lang,
                   data |-> data]
        response == invoke(prompt, llm)
    IN  IF response.exc THEN data ELSE response.ret

\* the key of a query in the cache
orchestrator_key(query) == _generate_key(<<"o", "r", "c", "h", "e", "s", "t", "r", "a", "t", "o", "r">>, PyStr(query))

\* the record of a pass.  hit: the cached text was returned; llm: the calls
\* of the LLM; exc: an exception leaves the pass; caught: the except clause
\* of the pass gave the text
Answered(ret, cs, hit, contacted, llm, exc) ==
    [ret |-> ret, cs |-> cs, hit |-> hit, contacted |-> contacted, llm |-> llm, exc |-> exc,
     caught |-> FALSE]

\* a pass without its except clause: the exception leaves query
except_Error_off(r) == r

\* except Exception as e: return f"Error: {str(e)}"
except_Error(r) ==
    IF r.exc THEN [r EXCEPT !.ret = PyStr(<<"Error: ", "format">>), !.exc = FALSE,
                            !.caught = TRUE]
    ELSE r

\* STEP 2 with the reformat of the financial block wherever that block is
\* not empty
combine_financial_first(query_text, financial_data, web_data, llm) ==
    IF financial_data # <<>>
    THEN _reformat_data(query_text, financial_data, "financial", llm)
    ELSE IF web_data # <<>>
    THEN _reformat_data(query_text, web_data, "web", llm)
    ELSE <<"Could not find relevant information.">>

\* STEP 2 of query: the branch the two blocks choose
combine(query_text, financial_data, web_data, llm) ==
    IF financial_data # <<>> /\ web_data # <<>>
    THEN _strict_synthesis(query_text, financial_data, web_data, llm)
    ELSE IF financial_data # <<>>
    THEN _reformat_data(query_text, financial_data, "financial", llm)
    ELSE IF web_data # <<>>
    THEN _reformat_data(query_text, web_data, "web", llm)
    ELSE <<"Could not find relevant information.">>

\* the end of a pass that caches its response for five minutes
store_for_five_minutes(web, contacted, financial_data, response, t, query_text, env) ==
    Answered(PyStr(response),
             set(web.cs, orchestrator_key(query_text), PyStr(response), PyInt(QUOTE_TTL),
                 t, env.fault).cs,
             FALSE, contacted \cup web.contacted,
             IF financial_data # <<>> \/ web.ret # <<>> THEN 1 ELSE 0, FALSE)

\* the end of a pass that leaves an entry another pass has stored in place
store_if_absent(web, contacted, financial_data, response, t, query_text, env) ==
    Answered(PyStr(response),
             IF orchestrator_key(query_text) \in DOMAIN web.cs.mem THEN web.cs
             ELSE set(web.cs, orchestrator_key(query_text), PyStr(response),
                      PyInt(CACHE_TTL), t, env.fault).cs,
             FALSE, contacted \cup web.contacted,
             IF financial_data # <<>> \/ web.ret # <<>> THEN 1 ELSE 0, FALSE)

\* the end of a pass: the response is cached under the key of the cache
\* check with settings.CACHE_TTL, and returned
store_and_return(web, contacted, financial_data, response, t, query_text, env) ==
    Answered(PyStr(response),
             set(web.cs, orchestrator_key(query_text), PyStr(response), PyInt(CACHE_TTL),
                 t, env.fault).cs,
             FALSE, contacted \cup web.contacted,
             IF financial_data # <<>> \/ web.ret # <<>> THEN 1 ELSE 0, FALSE)

\* query once web_data is fetched
synthesize(web, contacted, financial_data, t, query_text, env) ==
    store_and_return(web, contacted, financial_data,
                     combine(query_text, financial_data, web.ret, env.llm),
                     t, query_text, env)

\* STEP 1 with a web search for the queries that need news only
web_data_for_news(fin, t, query_text, env) ==
    IF Parsed[query_text].analysis.needs_news
    THEN _fetch_web_data(fin.cs, t, env.fault, query_text, env.search)
    ELSE Fetched(<<>>, fin.cs, {})

\* STEP 1, second block: web_data, over the store the first block left
web_data_for(fin, t, query_text, env) ==
    IF Parsed[query_text].analysis.needs_news \/ ~Parsed[query_text].analysis.needs_financial
    THEN _fetch_web_data(fin.cs, t, env.fault, query_text, env.search)
    ELSE Fetched(<<>>, fin.cs, {})

\* query once financial_data is fetched: the exception of the financial
\* agent leaves the try block, else web_data is fetched if the query needs
\* news or does not need financial data
fetch_web(fin, t, query_text, env) ==
    IF fin.ret.exc
    THEN Answered(None, fin.cs, FALSE, fin.contacted, 0, TRUE)
    ELSE synthesize(web_data_for(fin, t, query_text, env),
                    fin.contacted, fin.ret.ret, t, query_text, env)

\* STEP 1, first block: financial_data, over the store the cache check left
financial_data_for(cached, t, query_text, env) ==
    IF Parsed[query_text].analysis.needs_financial
    THEN financial_agent_query(cached.cs, t, query_text, env)
    ELSE Fetched(Returned(<<>>), cached.cs, {})

\* query after its cache check: a truthy cached value is returned, else
\* financial_data is fetched if the query needs it
fetch_financial(cached, t, query_text, env) ==
    IF Truthy(cached.ret) THEN Answered(cached.ret, cached.cs, TRUE, {}, 0, FALSE)
    ELSE fetch_web(financial_data_for(cached, t, query_text, env), t, query_text, env)

\* MultiAgentOrchestrator.query(query); env: what the store, the providers
\* and the LLM do in this pass
query(cs, t, query_text, env) ==
    except_Error(
        fetch_financial(get(cs, orchestrator_key(query_text), t, env.fault),
                        t, query_text, env))

\* MultiAgentOrchestrator.clear_memory()
clear_memory(cs, fault) == clear(cs, None, fault, {})

(***************************************************************************)
(* The orchestrator as a state machine: the store is constructed when the  *)
(* cache module is imported, then one query is put again and again, with   *)
(* the cache cleared now and then                                          *)
(***************************************************************************)
\* stock.info of the market-data provider
Info ==
    [currentPrice |-> PyInt(180), currency |-> USD, marketCap |-> PyInt(900),
     trailingPE |-> PyInt(25), fiftyTwoWeekHigh |-> PyInt(190),
     fiftyTwoWeekLow |-> PyInt(120), recommendationKey |-> PyStr(<<"b", "u", "y">>),
     numberOfAnalystOpinions |-> PyInt(30), targetMeanPrice |-> PyInt(175),
     targetHighPrice |-> PyInt(200), targetLowPrice |-> PyInt(150),
     profitMargins |-> PyInt(25), revenueGrowth |-> PyInt(15),
     returnOnEquity |-> PyInt(45), debtToEquity |-> PyInt(1)]

\* the last row of stock.history(period="1mo")
Latest ==
    [Open |-> PyInt(179), High |-> PyInt(182), Low |-> PyInt(178),
     Close |-> PyInt(180), Volume |-> PyInt(500)]

\* stock.news
Headlines ==
    <<[title |-> PyStr(<<"Chip demand grows">>), publisher |-> PyStr(<<"Wire">>)]>>

\* what DDGS.text finds
Hits ==
    <<[title |-> PyStr(<<"Chipmaker rallies">>), body |-> PyStr(<<"Shares rose.">>),
       href |-> PyStr(<<"https://", "www.", "example.com", "/a">>)]>>

\* stock.info with a market capitalisation that is no number
OddInfo == [Info EXCEPT !.marketCap = PyStr(<<"n/a">>)]

\* the tools of the market-data provider that raise in a pass: none, or
\* all four
MarketFailures ==
    {{}, {"stock", "analysts", "fundamentals", "news"}}

\* what the market-data provider does in a pass: it gives stock.info, or
\* the odd one, or its four tools raise
MarketOutcomes ==
    {[down |-> {}, info |-> Info], [down |-> {}, info |-> OddInfo]}
    \cup {[down |-> d, info |-> Info] : d \in MarketFailures \ {{}}}

\* six results of DDGS.text
SixHits ==
    [i \in 1..6 |->
        [title |-> PyStr(<<"Result " \o ToString(i)>>), body |-> PyStr(<<"Text.">>),
         href |-> PyStr(<<"https://", "example.org", "/" \o ToString(i)>>)]]

\* what the search provider does in a pass: one result, six results, no
\* result, an exception
SearchOutcomes ==
    {Returned(PyList(Hits)), Returned(PyList(SixHits)), Returned(PyList(<<>>)), Raised}

\* what the providers and the LLM do in one pass
Envs ==
    {[fault |-> FALSE,
      stock |-> IF "stock" \in m.down THEN Raised
                ELSE Returned([info |-> m.info, latest |-> Latest]),
      analysts |-> IF "analysts" \in m.down THEN Raised ELSE Returned(m.info),
      fundamentals |-> IF "fundamentals" \in m.down THEN Raised ELSE Returned(m.info),
      news |-> IF "news" \in m.down THEN Raised ELSE Returned(PyList(Headlines)),
      search |-> search,
      llm |-> llm] : m \in MarketOutcomes, search \in SearchOutcomes, llm \in LLMOutcomes}

\* the passes that differ: a pass that ends at its cache check consults
\* nobody, the market-data provider is consulted only for a query that
\* needs financial data and names a ticker, and the search provider is not
\* consulted for such a query unless it needs news
Consulted(cs, t, fault, q, envs) ==
    IF Truthy(get(cs, orchestrator_key(q), t, fault).ret)
    THEN {CHOOSE e \in envs : TRUE}
    ELSE IF Parsed[q].analysis.needs_financial /\ Truthy(Parsed[q].ticker)
    THEN IF Parsed[q].analysis.needs_news THEN envs
         ELSE {e \in envs : e.search = Returned(PyList(Hits))}
    ELSE {e \in envs : e.stock = Returned([info |-> Info, latest |-> Latest])}

InitOrch ==
    /\ NoCache
    /\ input \in [fn : {"Orchestrator"}, reachable : BOOLEAN, query : OrchQueries]
    /\ last = [op |-> "init"]

\* the calls are told apart by their turn
turn_after(call) == IF call.op = "query" THEN 1 - call.turn ELSE 0

\* the pass r, with what the providers and the LLM did in it
in_env(r, e) ==
    [ret |-> r.ret, cs |-> r.cs, hit |-> r.hit, contacted |-> r.contacted, llm |-> r.llm,
     exc |-> r.exc, caught |-> r.caught,
     env |-> [stock |-> e.stock, search |-> e.search, llm |-> e.llm]]

\* financial_data and web_data as STEP 1 leaves them to STEP 2, once
\* financial_data is fetched; none if the financial agent raised
blocks_after(fin, t, query_text, env) ==
    IF fin.ret.exc THEN [financial_data |-> None, web_data |-> None]
    ELSE [financial_data |-> PyStr(fin.ret.ret),
          web_data |-> PyStr(web_data_for(fin, t, query_text, env).ret)]

\* financial_data and web_data of a pass after its cache check; none on a
\* cache hit
blocks_of(cached, t, query_text, env) ==
    IF Truthy(cached.ret) THEN [financial_data |-> None, web_data |-> None]
    ELSE blocks_after(financial_data_for(cached, t, query_text, env), t, query_text, env)

\* the call of query(q) ends as r, with the blocks its STEP 1 fetched: the
\* store is as the pass left it
Answers(q, fault, r, blocks) ==
    /\ Becomes(r.cs)
    /\ last' = [op |-> "query", query |-> q, ret |-> r.ret, hit |-> r.hit,
                contacted |-> r.contacted, llm |-> r.llm, raised |-> r.exc,
                caught |-> r.caught, fault |-> fault, env |-> r.env,
                financial_data |-> blocks.financial_data, web_data |-> blocks.web_data,
                turn |-> turn_after(last)]

\* one call of MultiAgentOrchestrator.query, from its cache check to its
\* return
Query(q) ==
    /\ input.fn = "Orchestrator"
    /\ constructed
    /\ \E fault \in Faults :
       \E e \in Consulted(CS, now, fault, q, Envs) :
          Answers(q, fault, in_env(query(CS, now, q, [e EXCEPT !.fault = fault]), e),
                  blocks_of(get(CS, orchestrator_key(q), now, fault), now, q,
                            [e EXCEPT !.fault = fault]))
    /\ UNCHANGED <<now, input, memory, calls>>

\* one call of MultiAgentOrchestrator.clear_memory
ClearMemory ==
    /\ input.fn = "Orchestrator"
    /\ constructed
    /\ \E fault \in Faults :
          LET r == clear_memory(CS, fault)
          IN  /\ Becomes(r.cs)
              /\ last' = [op |-> "clear_memory", fault |-> fault]
    /\ UNCHANGED <<now, input, memory, calls>>

NextOrch ==
    \/ Construct
    \/ Query(input.query)
    \/ ClearMemory

SpecOrch == InitOrch /\ [][NextOrch]_vars

\* C6: two calls of query in a row with the same text, during which no call
\* of Redis raises, return the same text, and the second is a cache hit: it
\* contacts no provider and does not call the LLM
IdempotentQuery ==
    [][(/\ last.op = "query"
        /\ last'.op = "query"
        /\ last'.query = last.query
        /\ ~last.fault
        /\ ~last'.fault)
       => (/\ last'.ret = last.ret
           /\ last'.hit
           /\ last'.contacted = {}
           /\ last'.llm = 0)]_vars

\* the query of the scenario: it needs financial data and news
BothQuery == <<"N", "V", "I", "D", "I", "A", " ", "s", "t", "o", "c", "k", " ", "n", "e", "w", "s">>

\* the price of stock.info and the headline of the search, as they are printed
PriceText == ToString(Info.currentPrice.n)

HeadlineText == Hits[1].title.s[1]

\* a pass of the scenario: the market-data provider is asked for the quote
\* and gives the price, the search provider is asked and gives the headline
ScenarioPass ==
    /\ last.op = "query"
    /\ last.query = BothQuery
    /\ "stock_data" \in last.contacted
    /\ last.env.stock = Returned([info |-> Info, latest |-> Latest])
    /\ "web_search" \in last.contacted
    /\ last.env.search = Returned(PyList(Hits))

\* C11: a pass for a query that needs financial data and news, in which the
\* market-data provider gives a price and the search provider one headline,
\* returns a non-empty text that holds the price and the headline, whether
\* the LLM answers or raises
CopyThrough ==
    ScenarioPass =>
        /\ last.ret.py = "str"
        /\ last.ret.s # <<>>
        /\ PriceText \in Range(last.ret.s)
        /\ HeadlineText \in Range(last.ret.s)

\* C12: a call of query returns a str whatever the cache, the market-data
\* provider, the search provider and the LLM do; no exception leaves it
NoFailureFatal ==
    last.op = "query" => /\ ~last.raised
                         /\ last.ret.py = "str"

\* the Redis call of the cache raised and the formatter of the financial
\* agent raised on the data of the provider: the except clause of the pass
\* gave the text
NoFailureFatalWitness ==
    /\ last.op = "query"
    /\ last.fault
    /\ last.caught
    /\ last.ret.py = "str"
    /\ last.ret.s # <<>>

(***************************************************************************)
(* The conversation memory: MemoryManager                                  *)
(***************************************************************************)
\* xs[start:], where a negative start counts from the end
slice_from(xs, start) ==
    SubSeq(xs,
           (IF start < 0
            THEN (IF Len(xs) + start < 0 THEN 0 ELSE Len(xs) + start)
            ELSE (IF start > Len(xs) THEN Len(xs) ELSE start)) + 1,
           Len(xs))

\* the dict add_interaction appends
interaction(user_input, agent_response, metadata, t) ==
    [timestamp |-> isoformat(t), user |-> user_input, assistant |-> agent_response,
     metadata |-> Or(metadata, PyDict(<<>>))]

\* if len(self.memory) > self.max_history:
\*     self.memory = self.memory[-self.max_history:]
keep_recent(appended, max_history) ==
    IF Len(appended) > max_history THEN slice_from(appended, 0 - max_history)
    ELSE appended

\* MemoryManager.add_interaction(user_input, agent_response, metadata): the
\* list self.memory after the call
add_interaction(mem, max_history, user_input, agent_response, metadata, t) ==
    keep_recent(Append(mem, interaction(user_input, agent_response, metadata, t)),
                max_history)

\* the largest cap below the default one, and the default one
MaxHistory == 2

DefaultHistory == 10

\* the calls of add_interaction in one behaviour
MaxAdds == 12

\* what the user says
UserInputs == {PyStr(<<"a">>), PyStr(<<"b">>)}

InitMemory ==
    /\ NoCache
    /\ input \in [fn : {"MemoryManager"}, max_history : (0..MaxHistory) \cup {DefaultHistory}]
    /\ last = [op |-> "init"]

\* MemoryManager.__init__(max_history)
ConstructMemory ==
    /\ input.fn = "MemoryManager"
    /\ ~constructed
    /\ memory' = <<>>
    /\ last' = [op |-> "__init__", added |-> <<>>]
    /\ UNCHANGED <<cacheVars, input, calls>>

\* one call of add_interaction; added: the interactions given so far
AddInteraction(user_input) ==
    /\ input.fn = "MemoryManager"
    /\ constructed
    /\ Len(last.added) < MaxAdds
    /\ memory' = add_interaction(memory, input.max_history, user_input,
                                 PyStr(<<"ok">>), None, now)
    /\ last' = [op |-> "add_interaction",
                added |-> Append(last.added,
                                 interaction(user_input, PyStr(<<"ok">>), None, now))]
    /\ UNCHANGED <<cacheVars, input, calls>>

NextMemory ==
    \/ ConstructMemory
    \/ \E user_input \in UserInputs : AddInteraction(user_input)

SpecMemory == InitMemory /\ [][NextMemory]_vars

\* the n most recent of the interactions given, oldest first
MostRecent(added, n) ==
    SubSeq(added, (IF Len(added) > n THEN Len(added) - n ELSE 0) + 1, Len(added))

\* C13: after any calls of add_interaction the log holds at most max_history
\* interactions, and they are the most recently added ones in the order
\* they were added
BoundedMemory ==
    (input.fn = "MemoryManager" /\ constructed) =>
        /\ Len(memory) <= input.max_history
        /\ memory = MostRecent(last.added, input.max_history)

(***************************************************************************)
(* Threads on the local map.  The agents run their tools in worker threads *)
(* (asyncio.to_thread in BaseAgent.query) while the event loop uses the    *)
(* same cache_manager; no lock guards CacheManager._in_memory_cache.  A    *)
(* thread runs get, set or clear of the local backend one dict operation   *)
(* at a time; the position of a call is the line it is about to run.       *)
(***************************************************************************)
Threads == {"t1", "t2"}

\* a call of a thread: its arguments, the line it is at and its locals
ThreadCall(op, key, prefix, pc, cached_item, keys_to_delete) ==
    [op |-> op, key |-> key, prefix |-> prefix, pc |-> pc, cached_item |-> cached_item,
     keys_to_delete |-> keys_to_delete]

\* the calls the threads make: get(key), set(key, "v", 300), clear() and
\* clear("a")
ThreadCalls ==
    {ThreadCall("get", k, None, "get:51", None, {}) : k \in CacheKeys}
    \cup {ThreadCall("set", k, None, "set:75", None, {}) : k \in CacheKeys}
    \cup {ThreadCall("clear", <<>>, p, "clear:101", None, {}) : p \in {None, PyStr(<<"a">>)}}

\* what one step of a call leaves: the map, the call (done: it returned),
\* what it returned, whether its except clause ran (failed), and the entry
\* it deleted from the map
Stepped(mem, call, done, ret, failed, removed) ==
    [mem |-> mem, call |-> call, done |-> done, ret |-> ret, failed |-> failed,
     removed |-> removed]

\* get, lines 51 to 55: the entry is read and its expiry tested
get_51(mem, c, t) ==
    IF c.key \notin DOMAIN mem THEN Stepped(mem, c, TRUE, None, FALSE, None)
    ELSE IF t < mem[c.key].expires
    THEN Stepped(mem, c, TRUE, mem[c.key].value, FALSE, None)
    ELSE Stepped(mem, [c EXCEPT !.pc = "get:58", !.cached_item = mem[c.key]],
                 FALSE, None, FALSE, None)

\* get, line 58: del self._in_memory_cache[key]; a KeyError goes to the
\* except clause
get_58(mem, c) ==
    IF c.key \in DOMAIN mem
    THEN Stepped(Without(mem, {c.key}), c, TRUE, None, FALSE, mem[c.key])
    ELSE Stepped(mem, c, TRUE, None, TRUE, None)

\* set, lines 74 to 78: the entry is written
set_75(mem, c, t) ==
    Stepped(With(mem, c.key, [value |-> PyStr(<<"v">>), expires |-> t + QUOTE_TTL]),
            c, TRUE, None, FALSE, None)

\* clear, lines 101 to 108: the iteration over the keys starts, or the map
\* is cleared
clear_101(mem, c) ==
    IF Truthy(c.prefix)
    THEN Stepped(mem, [c EXCEPT !.pc = "clear:104", !.keys_to_delete = DOMAIN mem],
                 FALSE, None, FALSE, None)
    ELSE Stepped(EmptyMap, c, TRUE, None, FALSE, None)

\* the keys of the map that start with f"{prefix}:"
matching(mem, prefix) == {k \in DOMAIN mem : startswith(k, prefix.s \o <<":">>)}

\* the iteration is over and the keys to delete are known
iterated(mem, c) ==
    IF matching(mem, c.prefix) = {} THEN Stepped(mem, c, TRUE, None, FALSE, None)
    ELSE Stepped(mem, [c EXCEPT !.pc = "clear:106",
                                !.keys_to_delete = matching(mem, c.prefix)],
                 FALSE, None, FALSE, None)

\* clear, lines 103 and 104: the end of the iteration over the keys.  A map
\* that changed size under the iteration raises RuntimeError; one whose
\* keys changed but not their number raises or is iterated
clear_104(mem, c) ==
    IF DOMAIN mem = c.keys_to_delete THEN {iterated(mem, c)}
    ELSE IF Cardinality(DOMAIN mem) # Cardinality(c.keys_to_delete)
    THEN {Stepped(mem, c, TRUE, None, TRUE, None)}
    ELSE {Stepped(mem, c, TRUE, None, TRUE, None), iterated(mem, c)}

\* clear, lines 105 and 106: del self._in_memory_cache[k] for the key k of
\* keys_to_delete; a KeyError ends the loop in the except clause
clear_106(mem, c, k) ==
    IF k \notin DOMAIN mem THEN Stepped(mem, c, TRUE, None, TRUE, None)
    ELSE Stepped(Without(mem, {k}),
                 [c EXCEPT !.keys_to_delete = c.keys_to_delete \ {k}],
                 c.keys_to_delete = {k}, None, FALSE, None)

\* the steps a call can take from the line it is at
steps(mem, c, t) ==
    CASE c.pc = "get:51" -> {get_51(mem, c, t)}
      [] c.pc = "get:58" -> {get_58(mem, c)}
      [] c.pc = "set:75" -> {set_75(mem, c, t)}
      [] c.pc = "clear:101" -> {clear_101(mem, c)}
      [] c.pc = "clear:104" -> clear_104(mem, c)
      [] c.pc = "clear:106" -> {clear_106(mem, c, k) : k \in c.keys_to_delete}

InitThreads ==
    /\ NoCache
    /\ input \in [fn : {"threads"}, reachable : {FALSE}]
    /\ last = [op |-> "init"]

\* a thread calls get, set or clear
Call(th, c) ==
    /\ input.fn = "threads"
    /\ constructed
    /\ th \notin DOMAIN calls
    /\ calls' = With(calls, th, c)
    /\ last' = [op |-> "call", th |-> th]
    /\ UNCHANGED <<cacheVars, input, memory>>

\* the thread th has taken the step r
Steps(th, r) ==
    /\ _in_memory_cache' = r.mem
    /\ calls' = IF r.done THEN Without(calls, {th}) ELSE With(calls, th, r.call)
    /\ last' = [op |-> "step", th |-> th, call |-> calls[th].op, line |-> calls[th].pc,
                done |-> r.done, ret |-> r.ret, failed |-> r.failed,
                removed |-> r.removed]

\* a thread runs the line it is at
Step(th) ==
    /\ input.fn = "threads"
    /\ th \in DOMAIN calls
    /\ \E r \in steps(_in_memory_cache, calls[th], now) : Steps(th, r)
    /\ UNCHANGED <<redis_client, redis_store, now, input, memory>>

\* time passes
ThreadTick ==
    /\ input.fn = "threads"
    /\ constructed
    /\ \E t \in {QUOTE_TTL, 2 * QUOTE_TTL} :
          /\ t > now
          /\ now' = t
    /\ last' = [op |-> "tick"]
    /\ UNCHANGED <<redis_client, _in_memory_cache, redis_store, input, memory, calls>>

NextThreads ==
    \/ Construct
    \/ \E th \in Threads, c \in ThreadCalls : Call(th, c)
    \/ \E th \in Threads : Step(th)
    \/ ThreadTick

SpecThreads == InitThreads /\ [][NextThreads]_vars

\* C14: under any interleaving of the get, set and clear of several threads
\* on the local map, no call ends in its except clause, and the entry a get
\* deletes is an expired one, never one a set has written since
ThreadSafeMap ==
    last.op = "step" =>
        /\ ~last.failed
        /\ (last.call = "get" /\ last.removed # None) => now >= last.removed.expires

(***************************************************************************)
(* Concurrent calls of MultiAgentOrchestrator.query on one event loop.  A  *)
(* call runs on the loop from its cache check to its await of              *)
(* loop.run_in_executor without giving the loop away: the financial agent  *)
(* and the tools are called synchronously.  The LLM invocation is a work   *)
(* item of _executor, run by one of its worker threads; when it is over    *)
(* the call resumes on the loop, stores its response and returns.          *)
(***************************************************************************)
\* a pool of three workers
max_workers_three == 2 + 1

\* ThreadPoolExecutor(max_workers=2)
max_workers == 2

\* the requests that can be in flight at once
Requests == {"r1", "r2", "r3", "r4"}

\* the query every request puts
AsyncQuery == BothQuery

\* the providers answer; what the LLM does is chosen when its invocation ends
AsyncEnv ==
    CHOOSE e \in Envs : /\ e.stock = Returned([info |-> Info, latest |-> Latest])
                        /\ e.search = Returned(PyList(Hits))
                        /\ e.llm = "copy"

\* what the LLM does with an invocation that ends
AsyncLLM == {"copy", "raise"}

\* a call that has returned r
Finished(r) == [done |-> TRUE, r |-> r]

\* a call that awaits its LLM invocation: its locals, and the store it left
Awaiting(financial_data, web, contacted) ==
    [done |-> FALSE,
     r |-> [cs |-> web.cs, financial_data |-> financial_data, web_data |-> web.ret,
            contacted |-> contacted \cup web.contacted]]

\* STEP 2 up to its await: with no data the response is the fixed text and
\* the call stores it and returns, else it awaits the LLM
to_await(web, fin, t, query_text, env) ==
    IF fin.ret.ret = <<>> /\ web.ret = <<>>
    THEN Finished(store_and_return(web, fin.contacted, fin.ret.ret,
                                   combine(query_text, fin.ret.ret, web.ret, env.llm),
                                   t, query_text, env))
    ELSE Awaiting(fin.ret.ret, web, fin.contacted)

\* the second block of STEP 1, or the except clause of the pass
to_web(fin, t, query_text, env) ==
    IF fin.ret.exc
    THEN Finished(except_Error(Answered(None, fin.cs, FALSE, fin.contacted, 0, TRUE)))
    ELSE to_await(web_data_for(fin, t, query_text, env), fin, t, query_text, env)

\* the pass from its cache check on
to_financial(cached, t, query_text, env) ==
    IF Truthy(cached.ret) THEN Finished(Answered(cached.ret, cached.cs, TRUE, {}, 0, FALSE))
    ELSE to_web(financial_data_for(cached, t, query_text, env), t, query_text, env)

\* query from line 178 to its return or to its await
run_to_await(cs, t, query_text, env) ==
    to_financial(get(cs, orchestrator_key(query_text), t, env.fault), t, query_text, env)

\* query from the end of its LLM invocation to its return, over the store
\* as it is then
resume(cs, c, t, query_text, env) ==
    store_and_return(Fetched(c.web_data, cs, {}), c.contacted, c.financial_data,
                     combine(query_text, c.financial_data, c.web_data, env.llm),
                     t, query_text, env)

\* the calls at a position
At(pc) == {id \in DOMAIN calls : calls[id].pc = pc}

InitAsync ==
    /\ NoCache
    /\ input \in [fn : {"Orchestrator"}, reachable : {FALSE}, query : {AsyncQuery}]
    /\ last = [op |-> "init"]

\* the call id has returned r; the calls that are past their cache check
\* note the response that was stored while they were in flight
Returns(id, r) ==
    /\ Becomes(r.cs)
    /\ calls' = [x \in DOMAIN calls \ {id} |->
                    IF r.hit THEN calls[x] ELSE [calls[x] EXCEPT !.earlier = r.ret]]
    /\ last' = [op |-> "query", id |-> id, ret |-> r.ret, hit |-> r.hit, llm |-> r.llm,
                earlier |-> IF id \in DOMAIN calls THEN calls[id].earlier ELSE None,
                running |-> Cardinality(At("running")),
                queued |-> Cardinality(At("queued"))]

\* the call id awaits loop.run_in_executor(_executor, ...): its work item
\* is behind those that wait in the queue of the pool
Awaits(id, a) ==
    /\ Becomes(a.cs)
    /\ calls' = With(calls, id,
                     [pc |-> "queued", financial_data |-> a.financial_data,
                      web_data |-> a.web_data, contacted |-> a.contacted,
                      ahead |-> Cardinality(At("queued")), outcome |-> "none",
                      earlier |-> None])
    /\ last' = [op |-> "await", id |-> id]

\* a request arrives and its call runs on the loop to its return or its await
Request(id) ==
    /\ input.fn = "Orchestrator"
    /\ constructed
    /\ id \notin DOMAIN calls
    /\ \E s \in {run_to_await(CS, now, input.query, AsyncEnv)} :
          IF s.done THEN Returns(id, s.r) ELSE Awaits(id, s.r)
    /\ UNCHANGED <<now, input, memory>>

\* a worker thread of _executor that is free takes the work item at the
\* head of the queue and starts synthesis_llm.invoke(prompt)
WorkerTakes(id) ==
    /\ id \in At("queued")
    /\ calls[id].ahead = 0
    /\ Cardinality(At("running")) < max_workers
    /\ calls' = [x \in DOMAIN calls |->
                    IF x = id THEN [calls[x] EXCEPT !.pc = "running"]
                    ELSE IF calls[x].pc = "queued"
                    THEN [calls[x] EXCEPT !.ahead = calls[x].ahead - 1]
                    ELSE calls[x]]
    /\ last' = [op |-> "invoke", id |-> id]
    /\ UNCHANGED <<cacheVars, input, memory>>

\* the invocation of the LLM ends, with an answer or an exception; an
\* invocation that hangs never takes this step
InvokeEnds(id) ==
    /\ id \in At("running")
    /\ \E llm \in AsyncLLM :
          calls' = With(calls, id, [calls[id] EXCEPT !.pc = "resumable", !.outcome = llm])
    /\ last' = [op |-> "invoked", id |-> id]
    /\ UNCHANGED <<cacheVars, input, memory>>

\* the call resumes on the loop after its await, stores its response and
\* returns
Resume(id) ==
    /\ id \in At("resumable")
    /\ Returns(id, resume(CS, calls[id], now, input.query,
                          [AsyncEnv EXCEPT !.llm = calls[id].outcome]))
    /\ UNCHANGED <<now, input, memory>>

NextAsync ==
    \/ Construct
    \/ \E id \in Requests : Request(id)
    \/ \E id \in Requests : WorkerTakes(id)
    \/ \E id \in Requests : InvokeEnds(id)
    \/ \E id \in Requests : Resume(id)

SpecAsync == InitAsync /\ [][NextAsync]_vars

\* C15: no call waits for another call of the same query: a call that
\* missed the cache runs its whole pass and stores its response over
\* whatever an earlier call has stored, so that the entry under the key of
\* the query is the response of the call that wrote last
LastWriterWins ==
    (last.op = "query" /\ ~last.hit) =>
        /\ last.llm = 1
        /\ orchestrator_key(AsyncQuery) \in DOMAIN _in_memory_cache
        /\ _in_memory_cache[orchestrator_key(AsyncQuery)].value = last.ret

\* two calls of the same query were in flight together, both missed the
\* cache and both called the LLM; the one that returned second has
\* replaced the response of the first by its own, which differs
NoSingleFlightWitness ==
    /\ last.op = "query"
    /\ ~last.hit
    /\ last.llm = 1
    /\ last.earlier # None
    /\ last.earlier # last.ret
    /\ _in_memory_cache[orchestrator_key(AsyncQuery)].value = last.ret

\* C16: at most two invocations of the LLM run at a time, whatever the
\* number of calls that await one, and a call that ends at its cache check
\* returns without an invocation
BoundedPool ==
    /\ Cardinality(At("running")) <= 2
    /\ (last.op = "query" /\ last.hit) => last.llm = 0

\* a call returned the cached response while two invocations of the LLM
\* were running and a third waited in the queue of the pool
BoundedPoolWitness ==
    /\ last.op = "query"
    /\ last.hit
    /\ last.running = 2
    /\ last.queued = 1

(***************************************************************************)
(* clear on the local backend                                              *)
(***************************************************************************)
\* the local map without the entries whose key starts with prefix + ":"
WithoutPrefix(mem, prefix) ==
    [k \in {x \in DOMAIN mem : ~startswith(x, prefix \o <<":">>)} |-> mem[k]]

\* the original reading of C17: clear(prefix) removes exactly the entries
\* whose key starts with prefix + ":", whatever the prefix given, and
\* clear() removes all entries
PrefixClearGiven ==
    [][(redis_client = "None" /\ last'.op = "clear") =>
          _in_memory_cache' = IF last'.prefix # None
                              THEN WithoutPrefix(_in_memory_cache, last'.prefix.s)
                              ELSE EmptyMap]_vars

\* C17: on the local backend clear(prefix) with a non-empty prefix removes
\* exactly the entries whose key starts with prefix + ":" and leaves every
\* other entry as it is; clear() and clear("") remove all entries
PrefixClearLocal ==
    [][(redis_client = "None" /\ last'.op = "clear") =>
          _in_memory_cache' = IF last'.prefix # None /\ last'.prefix.s # <<>>
                              THEN WithoutPrefix(_in_memory_cache, last'.prefix.s)
                              ELSE EmptyMap]_vars

\* clear("a") on the local map removed the entry of "a:1" and left the one
\* of "ab:1"
PrefixClearWitness ==
    /\ redis_client = "None"
    /\ last.op = "clear"
    /\ last.prefix = PyStr(<<"a">>)
    /\ last.removed = {<<"a", ":", "1">>}
    /\ <<"a", "b", ":", "1">> \in DOMAIN _in_memory_cache

(***************************************************************************)
(* The five data tools as a state machine: after the cache module is       *)
(* imported the tools are called again and again with one argument, while  *)
(* time passes                                                             *)
(***************************************************************************)
\* the tickers and search texts the tools are called with
ToolArgs == {<<"N", "V", "D", "A">>, <<"A", "A", "P", "L">>}

\* what stock.info with stock.history gives, what stock.info gives, what
\* stock.news gives and what DDGS.text gives: a result, for the two lists
\* an empty one as well, or an exception
QuoteOutcomes == {Returned([info |-> Info, latest |-> Latest]), Raised}

InfoOutcomes == {Returned(Info), Raised}

NewsOutcomes == {Returned(PyList(Headlines)), Returned(PyList(<<>>)), Raised}

InitTools ==
    /\ NoCache
    /\ input \in [fn : {"tools"}, reachable : BOOLEAN, arg : ToolArgs]
    /\ last = [op |-> "init"]

\* a tool call of a category ends as r: the store is as the call left it
Fetches(category, ttl, fault, provider, r) ==
    /\ Becomes(r.cs)
    /\ last' = [op |-> "fetch", category |-> category, ttl |-> ttl, ret |-> r.ret,
                contacted |-> r.contacted # {}, obtained |-> r.contacted # {} /\ ~provider.exc,
                fault |-> fault, t |-> now]

\* one call of FinancialTools.get_stock_data
GetStockData ==
    /\ input.fn = "tools"
    /\ constructed
    /\ \E fault \in Faults, yf \in QuoteOutcomes :
          Fetches("stock_data", QUOTE_TTL, fault, yf,
                  get_stock_data(CS, now, fault, input.arg, yf))
    /\ UNCHANGED <<now, input, memory, calls>>

\* one call of FinancialTools.get_analyst_recommendations
GetAnalystRecommendations ==
    /\ input.fn = "tools"
    /\ constructed
    /\ \E fault \in Faults, yf \in InfoOutcomes :
          Fetches("analyst_recs", CACHE_TTL, fault, yf,
                  get_analyst_recommendations(CS, now, fault, input.arg, yf))
    /\ UNCHANGED <<now, input, memory, calls>>

\* one call of FinancialTools.get_fundamentals
GetFundamentals ==
    /\ input.fn = "tools"
    /\ constructed
    /\ \E fault \in Faults, yf \in InfoOutcomes :
          Fetches("fundamentals", CACHE_TTL, fault, yf,
                  get_fundamentals(CS, now, fault, input.arg, yf))
    /\ UNCHANGED <<now, input, memory, calls>>

\* one call of FinancialTools.get_company_news
GetCompanyNews ==
    /\ input.fn = "tools"
    /\ constructed
    /\ \E fault \in Faults, yf \in NewsOutcomes :
          Fetches("company_news", QUOTE_TTL, fault, yf,
                  get_company_news(CS, now, fault, input.arg, yf))
    /\ UNCHANGED <<now, input, memory, calls>>

\* one call of WebSearchTools.search_web
SearchWeb ==
    /\ input.fn = "tools"
    /\ constructed
    /\ \E fault \in Faults, ddgs \in SearchOutcomes :
          Fetches("web_search", QUOTE_TTL, fault, ddgs,
                  search_web(CS, now, fault, input.arg, ddgs))
    /\ UNCHANGED <<now, input, memory, calls>>

\* the instants the tools are called at: the start, and the expiry of a
\* five-minute entry and of a one-hour entry written at the start
ToolInstants == {0, QUOTE_TTL, CACHE_TTL}

\* time passes between two tool calls; the Redis server drops the keys
\* that have expired by then
ToolTick ==
    /\ input.fn = "tools"
    /\ constructed
    /\ \E t \in ToolInstants :
          /\ t > now
          /\ now' = t
          /\ redis_store' = Unexpired(redis_store, t)
    /\ last' = [op |-> "tick"]
    /\ UNCHANGED <<redis_client, _in_memory_cache, input, memory, calls>>

NextTools ==
    \/ Construct
    \/ GetStockData
    \/ GetAnalystRecommendations
    \/ GetFundamentals
    \/ GetCompanyNews
    \/ SearchWeb
    \/ ToolTick

SpecTools == InitTools /\ [][NextTools]_vars

\* C18: after a call of a tool has obtained a result from the provider,
\* whatever the result, a second call of that tool with the same argument
\* within the category's TTL returns the same result without contacting the
\* provider (no Redis call fails in either call)
CachedFetch ==
    [][(/\ last.op = "fetch" /\ last'.op = "fetch"
        /\ last'.category = last.category
        /\ last.obtained
        /\ ~last.fault /\ ~last'.fault
        /\ now' < last.t + last.ttl) =>
          (last'.ret = last.ret /\ ~last'.contacted)]_vars

(***************************************************************************)
(* The cache check and the cache store of the orchestrator                 *)
(***************************************************************************)
\* the store holds an entry for key k on the backend in use
Holds(k) ==
    IF redis_client = "connected" THEN k \in DOMAIN redis_store
    ELSE k \in DOMAIN _in_memory_cache /\ now < _in_memory_cache[k].expires

\* C19: if the cache holds an entry for the key of ("orchestrator", query),
\* whatever the stored text, query returns that text as a cache hit, with no
\* data source and no LLM called and the cache left as it was (no Redis
\* call fails)
CacheHitTerminal ==
    [][(/\ last'.op = "query"
        /\ ~last'.fault
        /\ Holds(orchestrator_key(input.query))) =>
          /\ last'.ret = get(CS, orchestrator_key(input.query), now, FALSE).ret
          /\ last'.hit
          /\ last'.contacted = {}
          /\ last'.llm = 0
          /\ UNCHANGED <<_in_memory_cache, redis_store>>]_vars

\* the expiry of the entry the store holds for key k
ExpiryOf(k) ==
    IF redis_client = "connected" THEN redis_store[k].expires
    ELSE _in_memory_cache[k].expires

\* the response of the last call is what the store holds under the key of
\* its query, until the default TTL from now has passed
ResponseStored ==
    /\ Holds(orchestrator_key(last.query))
    /\ get(CS, orchestrator_key(last.query), now, FALSE).ret = last.ret
    /\ ExpiryOf(orchestrator_key(last.query)) = now + CACHE_TTL

ErrorUncachedWitness ==
    /\ last.op = "query"
    /\ last.caught /\ ~last.fault
    /\ ~Holds(orchestrator_key(last.query))

(***************************************************************************)
(* The steps of a pass of the orchestrator                                 *)
(***************************************************************************)
\* a pass after a cache miss whose STEP 1 ended without an exception
MissPass == last.op = "query" /\ ~last.hit /\ last.financial_data # None

\* C21: in a pass where needs_financial is true and the resolver finds no
\* ticker in the query, the financial block STEP 1 hands to the combine
\* step is empty
UnresolvedYieldsEmpty ==
    (/\ MissPass
     /\ Parsed[last.query].analysis.needs_financial
     /\ ~Truthy(Parsed[last.query].ticker)) =>
        last.financial_data = PyStr(<<>>)

\* the test of the web step: needs_news or not needs_financial
WebWanted(q) ==
    Parsed[q].analysis.needs_news \/ ~Parsed[q].analysis.needs_financial

\* the search provider gives results in the pass
SearchGives == ~last'.env.search.exc /\ last'.env.search.ret.items # <<>>

Copied(lang, data) == <<"[" \o lang \o "]", "\n">> \o data

\* the branch of STEP 2 for the blocks f and w, seen in what a pass with
\* a copying LLM returns
BranchTaken(q, f, w, ret) ==
    IF f # <<>> /\ w # <<>>
    THEN ret = Copied(Parsed[q].synthesis_lang, f \o <<"\n">> \o w)
    ELSE IF f # <<>> THEN ret = Copied(Parsed[q].reformat_lang, f)
    ELSE IF w # <<>> THEN ret = Copied(Parsed[q].reformat_lang, w)
    ELSE TRUE

BothEmptyWitness ==
    /\ MissPass
    /\ last.financial_data.s = <<>>
    /\ last.web_data.s = <<>>
    /\ last.llm = 0

\* the labelled financial block, the labelled web block and the footer,
\* joined by newlines
Concatenation(f, w) ==
    <<"## Données Financières (yfinance API)", "\n">> \o f
    \o <<"\n", "\n## Actualités (DuckDuckGo)", "\n">> \o w
    \o <<"\n", "\n---", "\n",
         "*Sources: yfinance API (données en temps réel), DuckDuckGo (actualités)*">>

\* C24: when the LLM call raises, a pass with both blocks non-empty returns
\* the labelled financial block, the labelled web block and the footer,
\* with both blocks verbatim; a pass with one block non-empty returns that
\* block unchanged; and the call of query returns normally
FallbackOnLLMFailure ==
    (MissPass /\ last.env.llm = "raise") =>
        /\ ~last.raised /\ ~last.caught
        /\ (last.financial_data.s # <<>> /\ last.web_data.s # <<>>) =>
              last.ret = PyStr(Concatenation(last.financial_data.s, last.web_data.s))
        /\ (last.financial_data.s # <<>> /\ last.web_data.s = <<>>) =>
              last.ret = last.financial_data
        /\ (last.financial_data.s = <<>> /\ last.web_data.s # <<>>) =>
              last.ret = last.web_data

\* the LLM raised in the synthesis branch and the pass returned the
\* concatenation of both blocks
FallbackWitnessSynthesis ==
    /\ MissPass
    /\ last.env.llm = "raise"
    /\ last.llm = 1
    /\ last.financial_data.s # <<>>
    /\ last.web_data.s # <<>>
    /\ last.ret = PyStr(Concatenation(last.financial_data.s, last.web_data.s))

\* the LLM raised in the reformat branch and the pass returned the block
FallbackWitnessReformat ==
    /\ MissPass
    /\ last.env.llm = "raise"
    /\ last.llm = 1
    /\ last.financial_data.s = <<>>
    /\ last.ret = last.web_data

(***************************************************************************)
(* The two steps of the resolver                                           *)
(***************************************************************************)
\* the aliases of the table that occur in the lowercased text
AliasHits(q) ==
    {i \in 1..Len(TICKER_PATTERNS) : Occurs(TICKER_PATTERNS[i][1], lower(q))}

\* the all-uppercase tokens of 2 to 5 letters of the text that are
\* canonical symbols of the table, as spans
CanonicalTokens(q) ==
    {sp \in TickerSpans(q) : SubSeq(q, sp[1], sp[2]) \in TickerValues}

StepOneDecides ==
    /\ \A v \in TickerValues :
          \E i \in 1..Len(TICKER_PATTERNS) : TICKER_PATTERNS[i][1] = lower(v)
    /\ last.op = "_extract_ticker" =>
          /\ (last.ret # None) = (AliasHits(last.query) # {})
          /\ AliasHits(last.query) = {} => CanonicalTokens(last.query) = {}
          /\ last.ret = None \/ (last.ret.py = "str" /\ last.ret.s \in TickerValues)

\* a text that holds the explicit symbol AAPL after a token outside the
\* table was resolved to AAPL by the alias "aapl"
StepOneDecidesWitness ==
    /\ last.op = "_extract_ticker"
    /\ last.query = join(<<" ">>, <<Vocabulary[7], Vocabulary[8]>>)
    /\ CanonicalTokens(last.query) # {}
    /\ last.ret = PyStr(<<"A", "A", "P", "L">>)

(***************************************************************************)
(* The language of the prompts: the detection of _strict_synthesis and of  *)
(* _reformat_data, each applied to one query                               *)
(***************************************************************************)
LangVocabulary == <<
    <<"R", "é", "s", "u", "l", "t", "a", "t", "s">>,
    <<"m", "a", "r", "c", "h", "é">>,
    <<"A", "n", "a", "l", "y", "s", "e">>,
    <<"D", "o", "n", "n", "e", "z">>,
    <<"c", "o", "u", "r", "s">>,
    <<"N", "V", "I", "D", "I", "A">>,
    <<"s", "t", "o", "c", "k">>,
    <<"n", "e", "w", "s">>
>>

\* the texts of one or two words of the vocabulary
LangQueries ==
    UNION {{join(<<" ">>, ws) : ws \in [1..n -> Range(LangVocabulary)]} : n \in 1..2}

InitLang ==
    /\ NoCache
    /\ input \in [fn : {"lang"}, query : LangQueries]
    /\ last = [op |-> "lang", query |-> input.query, synthesis |-> "", reformat |-> ""]

\* the language detection of _strict_synthesis for the query
SynthesisLang ==
    /\ input.fn = "lang"
    /\ last.synthesis = ""
    /\ last' = [last EXCEPT !.synthesis = lang_of(synthesis_markers, input.query)]
    /\ UNCHANGED <<cacheVars, input, memory, calls>>

\* the language detection of _reformat_data for the query
ReformatLang ==
    /\ input.fn = "lang"
    /\ last.reformat = ""
    /\ last' = [last EXCEPT !.reformat = lang_of(reformat_markers, input.query)]
    /\ UNCHANGED <<cacheVars, input, memory, calls>>

NextLang == SynthesisLang \/ ReformatLang

SpecLang == InitLang /\ [][NextLang]_vars

\* C26: the synthesis path and the reformat path select the same language
\* for the same query: French iff the lowercased query contains a marker
\* word, else English
OneLanguage ==
    (last.op = "lang" /\ last.synthesis # "" /\ last.reformat # "") =>
        /\ last.synthesis = last.reformat
        /\ last.synthesis \in {"French", "English"}

(***************************************************************************)
(* The default TTL of the cache                                            *)
(***************************************************************************)
\* the seconds a set with this ttl asks for: the default for none and for 0
SecondsOf(ttl) == IF ttl = None \/ ttl = PyInt(0) THEN CACHE_TTL ELSE ttl.n

\* after the step the backend in use holds value under key until expires
HeldAfter(key, value, expires) ==
    IF redis_client' = "connected"
    THEN /\ key \in DOMAIN redis_store'
         /\ redis_store'[key] = [value |-> pickle_dumps(value), expires |-> expires]
    ELSE /\ key \in DOMAIN _in_memory_cache'
         /\ _in_memory_cache'[key] = [value |-> value, expires |-> expires]

\* a get of a key whose entry has not expired returns the value of the entry
LiveGetStep ==
    (last'.op = "get" /\ ~last'.fault) =>
        IF redis_client = "connected"
        THEN (last'.key \in DOMAIN redis_store /\ now < redis_store[last'.key].expires) =>
                 last'.ret = redis_store[last'.key].value.pickled
        ELSE (last'.key \in DOMAIN _in_memory_cache
                 /\ now < _in_memory_cache[last'.key].expires) =>
                 last'.ret = _in_memory_cache[last'.key].value

CompanyQuery == <<"N", "V", "I", "D", "I", "A">>

InitTimed ==
    /\ NoCache
    /\ input \in [fn : {"Orchestrator"}, reachable : BOOLEAN, query : {CompanyQuery}]
    /\ last = [op |-> "init"]

\* time passes between two calls of the orchestrator; the Redis server
\* drops the keys that have expired by then
OrchTick ==
    /\ input.fn = "Orchestrator"
    /\ constructed
    /\ \E t \in ToolInstants :
          /\ t > now
          /\ now' = t
          /\ redis_store' = Unexpired(redis_store, t)
    /\ last' = [op |-> "tick"]
    /\ UNCHANGED <<redis_client, _in_memory_cache, input, memory, calls>>

NextTimed ==
    \/ Construct
    \/ Query(input.query)
    \/ ClearMemory
    \/ OrchTick

SpecTimed == InitTimed /\ [][NextTimed]_vars

\* the key of the quote of the company of the query
QuoteKey ==
    _generate_key(<<"s", "t", "o", "c", "k", "_", "d", "a", "t", "a">>,
                  PyStr(Parsed[CompanyQuery].ticker.s))

\* the entries of the backend in use after a step
EntriesAfter == IF redis_client' = "connected" THEN redis_store' ELSE _in_memory_cache'

\* a pass that fetches the quote from the provider and returns from its
\* try block, with no Redis call failing
FetchingPass ==
    /\ last'.op = "query"
    /\ ~last'.hit /\ ~last'.caught /\ ~last'.fault
    /\ "stock_data" \in last'.contacted
    /\ ~last'.env.stock.exc

\* C29: a pass that fetches the quote stores it for five minutes and its
\* response for the default TTL, so the response outlives the quote it was
\* built from; and a call that returns the cached response fetches nothing
ResponseOutlivesData ==
    [][/\ FetchingPass =>
             /\ {orchestrator_key(CompanyQuery), QuoteKey} \subseteq DOMAIN EntriesAfter
             /\ EntriesAfter[QuoteKey].expires = now + QUOTE_TTL
             /\ EntriesAfter[orchestrator_key(CompanyQuery)].expires = now + CACHE_TTL
       /\ (last'.op = "query" /\ last'.hit) =>
             (last'.contacted = {} /\ last'.llm = 0)]_vars

\* query returned the cached response with no fetch, five minutes or more
\* after the quote it was built from was stored: the quote has expired
StaleResponseWitness ==
    /\ redis_client = "None"
    /\ last.op = "query"
    /\ last.hit
    /\ last.contacted = {}
    /\ PriceText \in Range(last.ret.s)
    /\ QuoteKey \in DOMAIN _in_memory_cache
    /\ now >= _in_memory_cache[QuoteKey].expires

====
